---- MODULE Spec2Model ----
(***************************************************************************)
(* Model of the MSVC symbol demangler (src/src/symbols/msvc/mod.rs).       *)
(*                                                                         *)
(* The input is a sequence of one-byte strings.  Every parse function of *)
(* the source is an operator  X_parse(ctx, backrefs)  that returns the     *)
(* record [st, ctx, br, val]:  st = "some" (Some(val)), "none" (None) or   *)
(* "panic" (the Rust code panicked: todo!(), out-of-range slice).  The     *)
(* context is mutated in place by the source, so the context of a failed   *)
(* parse is the context at the point of failure.  Every demangle         *)
(* function is an operator on the render state [stream, scope, panic].     *)
(*                                                                         *)
(* Fields of the context whose name starts with g_ are history variables:  *)
(* they record what the parse did and are never read by the parser.        *)
(***************************************************************************)
EXTENDS Integers, Sequences, FiniteSets, TLC

VARIABLES pc, input, ctx, backrefs, sym, out

vars == <<pc, input, ctx, backrefs, sym, out>>

(***************************************************************************)
(* Program constants.                                                      *)
(***************************************************************************)
\* context: the recursion-depth ceiling (spec 3.1: "<= 256").
MAX_DEPTH == 256
\* context: capacity of each back-reference table (spec 3.2).
BACKREF_CAP == 10
\* MD5::parse: "the md5 string must be of length 32".
MD5_LEN == 32

NoByte == ""
NoVal == [tag |-> "NoVal"]

Digits == <<"0", "1", "2", "3", "4", "5", "6", "7", "8", "9">>
HexLower == <<"a", "b", "c", "d", "e", "f">>
HexUpper == <<"A", "B", "C", "D", "E", "F">>
NumLetters == <<"A", "B", "C", "D", "E", "F", "G", "H",
                "I", "J", "K", "L", "M", "N", "O", "P">>
LowerLetters == {"a", "b", "c", "d", "e", "f", "g", "h", "i", "j", "k", "l", "m",
                 "n", "o", "p", "q", "r", "s", "t", "u", "v", "w", "x", "y", "z"}

Range(s) == {s[i] : i \in DOMAIN s}
IndexOf(s, b) == CHOOSE i \in DOMAIN s : s[i] = b

RECURSIVE Concat(_)
Concat(s) == IF s = <<>> THEN "" ELSE Head(s) \o Concat(Tail(s))

(***************************************************************************)
(* Results of a parse function.                                            *)
(***************************************************************************)
Some(c, b, v) == [st |-> "some", ctx |-> c, br |-> b, val |-> v]
None(c, b) == [st |-> "none", ctx |-> c, br |-> b, val |-> NoVal]
Panic(c, b) == [st |-> "panic", ctx |-> c, br |-> b, val |-> NoVal]

(***************************************************************************)
(* Context: the byte cursor, the modifier stack, the flags and the depth   *)
(* counter.  The context module is not part of the source tree; these      *)
(* operators follow sections 3.1 and 4.2 of the specification.             *)
(***************************************************************************)
Context_new(s) ==
    [src |-> s, offset |-> 0, modifiers |-> <<>>,
     parsing_qualifiers |-> TRUE, memorizing |-> TRUE, depth |-> 0,
     g_pushes |-> 0, g_pops |-> 0, g_emptyPops |-> 0,
     g_nest |-> 0, g_maxNest |-> 0, g_unguarded |-> 0, g_maxDepth |-> 0,
     g_refs |-> <<>>, g_temps |-> <<>>, g_params |-> <<>>, g_tpl |-> <<>>,
     g_rets |-> <<>>, g_quals |-> <<>>,
     g_scopes |-> <<>>, g_comps |-> <<>>,
     g_quiet |-> <<>>, g_anon |-> <<>>,
     g_iface |-> <<>>, g_tries |-> <<>>,
     g_calls |-> <<>>, g_stalls |-> 0]

\* g_identLog and g_paramLog list every memorisation attempt made on the
\* table, in order, whether or not the table took it; g_id tells the pairs of
\* tables apart: 0 for the pair made by parse, and for the pair made by a
\* Template::parse one more than the offset at which that template starts.
Backrefs_default ==
    [memorized |-> <<>>, params |-> <<>>, g_identLog |-> <<>>, g_paramLog |-> <<>>,
     g_id |-> 0]

remaining(c) == Len(c.src) - c.offset
peek(c) == IF c.offset < Len(c.src) THEN c.src[c.offset + 1] ELSE NoByte
has_slice(c, n) == c.offset + n <= Len(c.src)
peek_slice(c, n) == SubSeq(c.src, c.offset + 1, c.offset + n)
starts_with(c, s) == has_slice(c, Len(s)) /\ peek_slice(c, Len(s)) = s
advance(c, n) == [c EXCEPT !.offset = @ + n]
\* eat(b): the test; the caller advances by one when it holds.
eats(c, b) == peek(c) = b

\* base10(): the digit value, or -1 when the next byte is no digit.
base10(c) == IF peek(c) \in Range(Digits) THEN IndexOf(Digits, peek(c)) - 1 ELSE -1

\* base16(): the hex digit value, or -1.
base16(c) ==
    IF peek(c) \in Range(Digits) THEN IndexOf(Digits, peek(c)) - 1
    ELSE IF peek(c) \in Range(HexLower) THEN IndexOf(HexLower, peek(c)) + 9
    ELSE IF peek(c) \in Range(HexUpper) THEN IndexOf(HexUpper, peek(c)) + 9
    ELSE -1

\* descent(): one more level; fails above the ceiling.
descent(c) ==
    LET d == [c EXCEPT !.depth = @ + 1,
                       !.g_maxDepth = IF c.depth + 1 > @ THEN c.depth + 1 ELSE @]
    IN [ok |-> d.depth <= MAX_DEPTH, ctx |-> d]

ascent(c) == [c EXCEPT !.depth = @ - 1]

push_modifiers(c, m) ==
    [c EXCEPT !.modifiers = Append(@, m), !.g_pushes = @ + 1]

\* pop_modifiers(): the top of the stack, the empty set when the stack is empty.
pop_value(c) ==
    IF c.modifiers = <<>> THEN {} ELSE c.modifiers[Len(c.modifiers)]

pop_modifiers(c) ==
    IF c.modifiers = <<>>
    THEN [c EXCEPT !.g_pops = @ + 1, !.g_emptyPops = @ + 1]
    ELSE [c EXCEPT !.modifiers = SubSeq(@, 1, Len(@) - 1), !.g_pops = @ + 1]

\* number(): optional ? (negative); one digit 0..9 is the value 1..10;
\* otherwise a run of A..P (hex nibbles 0..15), ended by @.
RECURSIVE number_run(_, _)
number_run(c, n) ==
    IF peek(c) = "@" THEN [st |-> "some", ctx |-> advance(c, 1), val |-> n]
    ELSE IF peek(c) \in Range(NumLetters)
         THEN number_run(advance(c, 1), n * 16 + IndexOf(NumLetters, peek(c)) - 1)
         ELSE [st |-> "none", ctx |-> c, val |-> 0]

number(c) ==
    LET neg == eats(c, "?")
        c1 == IF neg THEN advance(c, 1) ELSE c
        sign == IF neg THEN -1 ELSE 1
    IN IF base10(c1) >= 0
       THEN [st |-> "some", ctx |-> advance(c1, 1), val |-> sign * (base10(c1) + 1)]
       ELSE IF peek(c1) \in Range(NumLetters)
            THEN LET r == number_run(c1, 0)
                 IN [st |-> r.st, ctx |-> r.ctx, val |-> sign * r.val]
            ELSE [st |-> "none", ctx |-> c1, val |-> 0]

Borrowed(s, e) == [tag |-> "Borrowed", start |-> s, end |-> e]

\* ident(): the bytes up to the next @, which is consumed; empty fails.
RECURSIVE ident_len(_, _)
ident_len(c, n) ==
    IF c.offset + n >= Len(c.src) THEN -1
    ELSE IF c.src[c.offset + n + 1] = "@" THEN n
    ELSE ident_len(c, n + 1)

ident(c) ==
    LET n == ident_len(c, 0)
    IN IF n <= 0 THEN [st |-> "none", ctx |-> c, val |-> NoVal]
       ELSE [st |-> "some", ctx |-> advance(c, n + 1),
             val |-> Borrowed(c.offset, c.offset + n)]

(***************************************************************************)
(* Back-reference tables (spec 3.2): append in parse order, capacity 10,   *)
(* a full table ignores the attempt, a digit resolves to the stored entry. *)
(***************************************************************************)
\* try_memorizing_ident without the capacity test.
try_memorizing_ident_unbounded(b, lit) ==
    [b EXCEPT !.memorized = Append(@, lit), !.g_identLog = Append(@, lit)]

try_memorizing_ident(b, lit) ==
    IF Len(b.memorized) < BACKREF_CAP
    THEN [b EXCEPT !.memorized = Append(@, lit), !.g_identLog = Append(@, lit)]
    ELSE [b EXCEPT !.g_identLog = Append(@, lit)]

try_memorizing_param(b, tipe) ==
    IF Len(b.params) < BACKREF_CAP
    THEN [b EXCEPT !.params = Append(@, tipe), !.g_paramLog = Append(@, tipe)]
    ELSE [b EXCEPT !.g_paramLog = Append(@, tipe)]

has_memorized_ident(b, digit) == digit + 1 <= Len(b.memorized)

get_memorized_ident(b, digit) == b.memorized[digit + 1]
has_memorized_param(b, digit) == digit + 1 <= Len(b.params)
get_memorized_param(b, digit) == b.params[digit + 1]

\* The context after a digit reference, with the reference noted in g_refs:
\* the digit, whether the table had the entry, the entry given, the table
\* and its attempt log at that moment, which pair of tables it was (tid) and
\* the templates being parsed (tpl, their start offsets, innermost last).
note_ident_ref(c, b, digit) ==
    [c EXCEPT !.g_refs = Append(@,
        [kind |-> "ident", digit |-> digit, hit |-> has_memorized_ident(b, digit),
         val |-> IF has_memorized_ident(b, digit) THEN get_memorized_ident(b, digit)
                 ELSE NoVal,
         table |-> b.memorized, log |-> b.g_identLog,
         tid |-> b.g_id, tpl |-> c.g_tpl])]

note_param_ref(c, b, digit) ==
    [c EXCEPT !.g_refs = Append(@,
        [kind |-> "param", digit |-> digit, hit |-> has_memorized_param(b, digit),
         val |-> IF has_memorized_param(b, digit) THEN get_memorized_param(b, digit)
                 ELSE NoVal,
         table |-> b.params, log |-> b.g_paramLog,
         tid |-> b.g_id, tpl |-> c.g_tpl])]

(***************************************************************************)
(* trait Parse (lines 131-133): Parse(T, c, b) is T::parse(ctx, backrefs)  *)
(* for the node type named T.  The node types are mutually recursive, so   *)
(* every call of one parser from another goes through it.                  *)
(***************************************************************************)
RECURSIVE Parse(_, _, _)

(***************************************************************************)
(* Single-byte tables: modifiers, qualifiers, calling conventions, storage.*)
(* Bit-sets are sets of flag names; | is union.                          *)
(***************************************************************************)

Modifiers_parse(c, b) ==
    LET p == peek(c)
    IN IF p = "E" THEN Some(advance(c, 1), b, {"FAR"})
       ELSE IF p = "F" THEN Some(advance(c, 1), b, {"FAR", "CONST"})
       ELSE IF p = "G" THEN Some(advance(c, 1), b, {"FAR", "VOLATILE"})
       ELSE IF p = "H" THEN Some(advance(c, 1), b, {"FAR", "VOLATILE", "CONST"})
       ELSE IF p \in {"A", "Q"} THEN Some(advance(c, 1), b, {})
       ELSE IF p \in {"B", "R"} THEN Some(advance(c, 1), b, {"CONST"})
       ELSE IF p \in {"C", "S"} THEN Some(advance(c, 1), b, {"VOLATILE"})
       ELSE IF p \in {"D", "T"} THEN Some(advance(c, 1), b, {"CONST", "VOLATILE"})
       ELSE Some(c, b, {})

\* ?A / ?B / ?C / ?D
cv_letter(p) ==
    IF p = "A" THEN {}
    ELSE IF p = "B" THEN {"CONST"}
    ELSE IF p = "C" THEN {"VOLATILE"}
    ELSE {"CONST", "VOLATILE"}

MemberReturnModifiers_parse(c, b) ==
    IF ~eats(c, "?") THEN Some(c, b, {})
    ELSE LET c1 == advance(c, 1)
         IN IF peek(c1) = NoByte THEN None(c1, b)
            ELSE IF peek(c1) \in {"A", "B", "C", "D"}
                 THEN Some(advance(c1, 1), b, cv_letter(peek(c1)))
                 ELSE None(advance(c1, 1), b)

Qualifiers_parse(c, b) ==
    LET p == peek(c)
    IN IF p \in {"B", "R"} THEN Some(advance(c, 1), b, {"CONST"})
       ELSE IF p \in {"C", "S"} THEN Some(advance(c, 1), b, {"VOLATILE"})
       ELSE IF p \in {"D", "T"} THEN Some(advance(c, 1), b, {"CONST", "VOLATILE"})
       ELSE IF p \in {"A", "Q"} THEN Some(advance(c, 1), b, {})
       ELSE Some(c, b, {})

qualifier_addition(p) ==
    IF p = "E" THEN {"PTR64"}
    ELSE IF p = "I" THEN {"RESTRICT"}
    ELSE IF p = "F" THEN {"UNALIGNED"}
    ELSE IF p = "G" THEN {"LVALUE"}
    ELSE {"RVALUE"}

qualifier_mismatch_never(addi, quali) == FALSE

\* lvalue_mismatch || rvalue_mismatch
qualifier_mismatch(addi, quali) ==
    \/ addi = {"LVALUE"} /\ {"RVALUE"} \in Range(quali)
    \/ addi = {"RVALUE"} /\ {"LVALUE"} \in Range(quali)

\* the for idx in 0..4 loop: quali is the array of four modifier sets.
RECURSIVE FunctionQualifiers_loop(_, _, _)
FunctionQualifiers_loop(c, quali, idx) ==
    IF idx > 4 \/ peek(c) \notin {"E", "I", "F", "G", "H"}
    THEN [ctx |-> c, quali |-> quali]
    ELSE IF qualifier_mismatch(qualifier_addition(peek(c)), quali)
    THEN [ctx |-> c, quali |-> quali]
    ELSE FunctionQualifiers_loop(advance(c, 1),
             [quali EXCEPT ![idx] = qualifier_addition(peek(c))], idx + 1)

\* g_quals records the offsets at the entry of FunctionQualifiers::parse,
\* after the loop and at the return, and the set returned.
FunctionQualifiers_parse(c, b) ==
    LET l == FunctionQualifiers_loop(c, <<{}, {}, {}, {}>>, 1)
        q == Qualifiers_parse(l.ctx, b)
        modi == l.quali[1] \cup l.quali[2] \cup l.quali[3] \cup l.quali[4] \cup q.val
    IN Some([q.ctx EXCEPT !.g_quals = Append(@, [start |-> c.offset,
                                                 stop |-> l.ctx.offset,
                                                 end |-> q.ctx.offset,
                                                 modi |-> modi])],
            b, modi)

CallingConv_table(p) ==
    IF p \in {"A", "B"} THEN "Cdecl"
    ELSE IF p \in {"C", "D"} THEN "Pascal"
    ELSE IF p \in {"E", "F"} THEN "Thiscall"
    ELSE IF p \in {"G", "H"} THEN "Stdcall"
    ELSE IF p \in {"I", "J"} THEN "Fastcall"
    ELSE IF p \in {"M", "N"} THEN "Clrcall"
    ELSE IF p \in {"O", "P"} THEN "Eabi"
    ELSE IF p = "Q" THEN "Vectorcall"
    ELSE "none"

CallingConv_parse(c, b) ==
    IF peek(c) = NoByte THEN None(c, b)
    ELSE IF CallingConv_table(peek(c)) = "none" THEN None(advance(c, 1), b)
    ELSE Some(advance(c, 1), b, CallingConv_table(peek(c)))

StorageScope_table(p) ==
    IF p = "A" THEN {"PRIVATE"}
    ELSE IF p = "B" THEN {"PRIVATE", "FAR"}
    ELSE IF p \in {"C", "D"} THEN {"PRIVATE", "STATIC"}
    ELSE IF p \in {"E", "F"} THEN {"PRIVATE", "VIRTUAL"}
    ELSE IF p = "G" THEN {"PRIVATE", "ADJUST"}
    ELSE IF p = "H" THEN {"PRIVATE", "ADJUST", "FAR"}
    ELSE IF p = "I" THEN {"PROTECTED"}
    ELSE IF p = "J" THEN {"PROTECTED", "FAR"}
    ELSE IF p = "K" THEN {"PROTECTED", "STATIC"}
    ELSE IF p = "L" THEN {"PROTECTED", "STATIC", "FAR"}
    ELSE IF p = "M" THEN {"PROTECTED", "VIRTUAL"}
    ELSE IF p = "N" THEN {"PROTECTED", "ADJUST", "FAR"}
    ELSE IF p = "O" THEN {"PROTECTED", "ADJUST"}
    ELSE IF p = "P" THEN {"PROTECTED", "ADJUST", "FAR"}
    ELSE IF p = "Q" THEN {"PUBLIC"}
    ELSE IF p = "R" THEN {"PUBLIC", "FAR"}
    ELSE IF p = "S" THEN {"PUBLIC", "STATIC"}
    ELSE IF p = "T" THEN {"PUBLIC", "STATIC", "FAR"}
    ELSE IF p = "U" THEN {"PUBLIC", "VIRTUAL"}
    ELSE IF p = "V" THEN {"PUBLIC", "VIRTUAL", "FAR"}
    ELSE IF p = "W" THEN {"PUBLIC", "ADJUST"}
    ELSE IF p = "X" THEN {"PUBLIC", "ADJUST", "FAR"}
    ELSE IF p = "Y" THEN {"GLOBAL"}
    ELSE IF p = "Z" THEN {"GLOBAL", "FAR"}
    ELSE {"none"}

StorageScope_parse(c, b) ==
    IF peek(c) = NoByte THEN None(c, b)
    ELSE IF StorageScope_table(peek(c)) = {"none"} THEN None(advance(c, 1), b)
    ELSE Some(advance(c, 1), b, StorageScope_table(peek(c)))

Literal_parse(c, b) ==
    LET i == ident(c)
    IN IF i.st # "some" THEN None(i.ctx, b)
       ELSE Some(i.ctx, IF i.ctx.memorizing THEN try_memorizing_ident(b, i.val) ELSE b,
                 i.val)

\* the while ctx.base16().is_some() loop of MD5::parse.
RECURSIVE hex_run(_)
hex_run(c) == IF base16(c) >= 0 THEN hex_run(advance(c, 1)) ELSE c

\* MD5::parse rejecting only the runs shorter than 32.
MD5_parse_at_least(c, b) ==
    LET start == c.offset
        c1 == hex_run(c)
        data == Borrowed(start, start + (c1.offset - start))
    IN IF data.end - data.start < MD5_LEN THEN None(c1, b)
       ELSE IF ~eats(c1, "@") THEN None(c1, b)
       ELSE Some(advance(c1, 1), b, [tag |-> "MD5", lit |-> data])

MD5_parse(c, b) ==
    LET start == c.offset
        c1 == hex_run(c)
        data == Borrowed(start, start + (c1.offset - start))
    IN IF data.end - data.start # MD5_LEN THEN None(c1, b)
       ELSE IF ~eats(c1, "@") THEN None(c1, b)
       ELSE Some(advance(c1, 1), b, [tag |-> "MD5", lit |-> data])

(***************************************************************************)
(* History of the recursion: enter/leave bracket the recursive parse       *)
(* entries (nested symbol, template, pointee, array element, return and    *)
(* parameter type).  An entry made while the depth counter is below the    *)
(* number of active entries was not counted by the counter.                *)
(***************************************************************************)
enter(c) ==
    [c EXCEPT !.g_nest = @ + 1,
              !.g_maxNest = IF c.g_nest + 1 > @ THEN c.g_nest + 1 ELSE @,
              !.g_unguarded = IF c.depth < c.g_nest + 1 THEN @ + 1 ELSE @]

leave(r) == [r EXCEPT !.ctx.g_nest = @ - 1]

\* g_calls is the stack of the parse calls in progress, each with the offset
\* at its entry; g_stalls counts the calls entered while a call of the same
\* node type at the same offset was in progress, and the loop iterations
\* that consumed nothing.
calling(T, c) ==
    [c EXCEPT !.g_calls = Append(@, <<T, c.offset>>),
              !.g_stalls = IF <<T, c.offset>> \in Range(c.g_calls)
                           THEN @ + 1 ELSE @]

called(r) == [r EXCEPT !.ctx.g_calls = SubSeq(@, 1, Len(@) - 1)]

number_r(c, b) ==
    LET n == number(c) IN [st |-> n.st, ctx |-> n.ctx, br |-> b, val |-> n.val]

map_val(r, v) == IF r.st = "some" THEN [r EXCEPT !.val = v] ELSE r

(***************************************************************************)
(* Type::parse                                                             *)
(***************************************************************************)
Prim(tag, modi) == [tag |-> tag, modi |-> modi]
Unit == [tag |-> "Unit"]

PrimitiveLetters ==
    {"X", "D", "C", "E", "F", "G", "H", "I", "J", "K", "M", "N", "O"}

primitive_tag(p) ==
    CASE p = "X" -> "Void" [] p = "D" -> "Char" [] p = "C" -> "IChar"
      [] p = "E" -> "UChar" [] p = "F" -> "IShort" [] p = "G" -> "UShort"
      [] p = "H" -> "Int" [] p = "I" -> "UInt" [] p = "J" -> "Long"
      [] p = "K" -> "ULong" [] p = "M" -> "Float" [] p = "N" -> "Double"
      [] p = "O" -> "LDouble"

ExtendedLetters ==
    {"D", "E", "F", "G", "H", "I", "J", "K", "L", "M", "N", "W", "Q", "S", "U"}

extended_tag(p) ==
    CASE p = "D" -> "Int8" [] p = "E" -> "UInt8" [] p = "F" -> "Int16"
      [] p = "G" -> "UInt16" [] p = "H" -> "Int32" [] p = "I" -> "UInt32"
      [] p = "J" -> "Int64" [] p = "K" -> "UInt64" [] p = "L" -> "Int128"
      [] p = "M" -> "Uint128" [] p = "N" -> "Bool" [] p = "W" -> "WChar"
      [] p = "Q" -> "Char8" [] p = "S" -> "Char16" [] p = "U" -> "Char32"

\* Function::parse(..).map(Type::Function)?, then wrapped with the popped modifiers.
Type_parse_fnref(c, b, tag) ==
    LET f == Parse("Function", [c EXCEPT !.parsing_qualifiers = FALSE], b)
    IN IF f.st # "some" THEN f
       ELSE Some(pop_modifiers(f.ctx), f.br,
                 [tag |-> tag, modi |-> pop_value(f.ctx),
                  tipe |-> [tag |-> "Function", func |-> f.val]])

as_function(r) == map_val(r, [tag |-> "Function", func |-> r.val])
as_member_function(r) == map_val(r, [tag |-> "MemberFunction", func |-> r.val])
as_member_function_ptr(r) == map_val(r, [tag |-> "MemberFunctionPtr", func |-> r.val])
as_array(r) == map_val(r, [tag |-> "Array", array |-> r.val])

\* lines 217-218 and 255-256: the Enum or Typedef built from the name r that
\* was parsed with memorizing cleared; g_quiet records the identifier table
\* b before the name was parsed and the table after it.
Type_parse_named(r, b, tag) ==
    IF r.st # "some" THEN r
    ELSE Some([pop_modifiers(r.ctx) EXCEPT
                   !.g_quiet = Append(@, [tag |-> tag, before |-> b.memorized,
                                          after |-> r.br.memorized])],
              r.br, [tag |-> tag, modi |-> pop_value(r.ctx), name |-> r.val])

\* lines 212-241: the two-byte prefixes.  st = "cont": no prefix matched.
Type_parse_prefix(c, b) ==
    IF ~has_slice(c, 2) THEN None(c, b)
    ELSE LET p2 == peek_slice(c, 2)
         IN IF p2 = <<"W", "4">>
            THEN Type_parse_named(
                     Parse("Path", [advance(c, 2) EXCEPT !.memorizing = FALSE], b),
                     b, "Enum")
            ELSE IF p2 = <<"A", "6">> THEN Type_parse_fnref(advance(c, 2), b, "Ref")
            ELSE IF p2 = <<"P", "6">> THEN Type_parse_fnref(advance(c, 2), b, "Ptr")
            ELSE IF p2 = <<"P", "8">>
            THEN as_member_function_ptr(Parse("MemberFunctionPtr", 
                     [advance(c, 2) EXCEPT !.parsing_qualifiers = TRUE], b))
            ELSE [st |-> "cont", ctx |-> c, br |-> b, val |-> NoVal]

\* lines 252-297: after $$.  st = "cont": fall through to line 299.
Type_parse_dollar2(c, b) ==
    IF eats(c, "Y")
    THEN Type_parse_named(
             Literal_parse([advance(c, 1) EXCEPT !.memorizing = FALSE], b),
             b, "Typedef")
    ELSE IF eats(c, "T") THEN Some(advance(c, 1), b, [tag |-> "Nullptr"])
    ELSE IF eats(c, "Q") THEN Type_parse_fnref(advance(c, 1), b, "RValueRef")
    ELSE IF starts_with(c, <<"B", "Y">>) THEN as_array(Parse("Array", advance(c, 2), b))
    ELSE IF starts_with(c, <<"A", "6">>)
    THEN as_function(Parse("Function", [advance(c, 2) EXCEPT !.parsing_qualifiers = FALSE], b))
    ELSE IF starts_with(c, <<"A", "8", "@", "@">>)
    THEN as_function(Parse("Function", [advance(c, 4) EXCEPT !.parsing_qualifiers = TRUE], b))
    ELSE IF eats(c, "V") \/ eats(c, "Z") THEN Some(advance(c, 1), b, Unit)
    ELSE IF starts_with(c, <<"$", "V">>) THEN Some(advance(c, 2), b, Unit)
    ELSE IF has_slice(c, 2) /\ peek_slice(c, 2) \in
                {<<"1", "?">>, <<"H", "?">>, <<"I", "?">>, <<"J", "?">>}
    THEN as_member_function_ptr(Parse("MemberFunctionPtr", advance(c, 2), b))
    ELSE IF eats(c, "C")
    THEN LET q == Qualifiers_parse(advance(c, 1), b)
         IN [st |-> "cont", ctx |-> push_modifiers(q.ctx, q.val), br |-> b, val |-> NoVal]
    ELSE [st |-> "cont", ctx |-> c, br |-> b, val |-> NoVal]

\* lines 243-308: the $ prefixes.  st = "cont": fall through to line 310.
Type_parse_dollar(c, b) ==
    IF ~eats(c, "$") THEN [st |-> "cont", ctx |-> c, br |-> b, val |-> NoVal]
    ELSE LET c1 == advance(c, 1)
         IN IF eats(c1, "0")
            THEN LET n == number_r(advance(c1, 1), b)
                 IN map_val(n, [tag |-> "Constant", val |-> n.val])
            ELSE IF eats(c1, "D")
            THEN LET n == number_r(advance(c1, 1), b)
                 IN map_val(n, [tag |-> "TemplateParameterIdx", idx |-> n.val])
            ELSE LET d == IF eats(c1, "$") THEN Type_parse_dollar2(advance(c1, 1), b)
                          ELSE [st |-> "cont", ctx |-> c1, br |-> b, val |-> NoVal]
                 IN IF d.st # "cont" THEN d
                    ELSE IF eats(d.ctx, "S") THEN Some(advance(d.ctx, 1), b, Unit)
                    ELSE IF peek(d.ctx) \in {"1", "H", "I", "J"}
                    THEN LET c2 == advance(d.ctx, 1)
                         IN IF ~eats(c2, "?") THEN None(c2, b)
                            ELSE as_member_function_ptr(
                                     Parse("MemberFunctionPtr", advance(c2, 1), b))
                    ELSE d

PointerLetters == {"A", "B", "P", "Q", "R", "S"}

\* lines 324-344: the six reference and pointer letters.
pointer_tag(p) == IF p \in {"A", "B"} THEN "Ref" ELSE "Ptr"

pointer_modi(p, modi) ==
    IF p \in {"A", "P"} THEN modi
    ELSE IF p = "B" THEN {"VOLATILE"}
    ELSE IF p = "Q" THEN {"CONST"}
    ELSE IF p = "R" THEN {"VOLATILE"}
    ELSE {"CONST", "VOLATILE"}

\* lines 319-381: pop the modifiers, then the single-byte dispatch.
Type_parse_byte(c0, b) ==
    LET modi == pop_value(c0)
        c == pop_modifiers(c0)
        p == peek(c)
        c1 == advance(c, 1)
    IN IF p = NoByte THEN None(c, b)
       ELSE IF p \in {"T", "U", "V"}
       THEN LET r == Parse("Path", c1, b)
            IN map_val(r, [tag |-> (IF p = "T" THEN "Union"
                                    ELSE IF p = "U" THEN "Struct" ELSE "Class"),
                           modi |-> modi, name |-> r.val])
       ELSE IF p \in PointerLetters
       THEN LET r == Parse("Pointee", c1, b)
            IN map_val(r, [tag |-> pointer_tag(p), modi |-> pointer_modi(p, modi),
                           tipe |-> r.val])
       ELSE IF p = "Y" THEN as_array(Parse("Array", c1, b))
       ELSE IF p \in PrimitiveLetters THEN Some(c1, b, Prim(primitive_tag(p), modi))
       ELSE IF p = "_"
       THEN LET q == peek(c1)
                c2 == advance(c1, 1)
            IN IF q = NoByte THEN None(c1, b)
               ELSE IF q = "$"
               THEN LET r == Parse("Type", c2, b)
                    IN map_val(r, [tag |-> "W64", modi |-> modi, tipe |-> r.val])
               ELSE IF q \in ExtendedLetters THEN Some(c2, b, Prim(extended_tag(q), modi))
               ELSE None(c2, b)
       ELSE None(c1, b)

\* lines 315-317: a digit is a memorised parameter type.
Type_parse_digit(c, b) ==
    IF has_memorized_param(b, base10(c))
    THEN Some(note_param_ref(advance(c, 1), b, base10(c)), b,
              get_memorized_param(b, base10(c)))
    ELSE None(note_param_ref(advance(c, 1), b, base10(c)), b)

Type_parse(c, b) ==
    LET p == Type_parse_prefix(c, b)
    IN IF p.st # "cont" THEN p
       ELSE LET d == Type_parse_dollar(c, b)
            IN IF d.st # "cont" THEN d
               ELSE IF eats(d.ctx, "?")
               THEN LET n == number_r(advance(d.ctx, 1), b)
                    IN map_val(n, [tag |-> "TemplateParameterIdx", idx |-> 0 - n.val])
               ELSE IF base10(d.ctx) >= 0
               THEN Type_parse_digit(d.ctx, b)
               ELSE Type_parse_byte(d.ctx, b)

(***************************************************************************)
(* Variable, the function family, Array, Pointee, FunctionReturnType       *)
(***************************************************************************)
StorageVariable_table(p) ==
    CASE p = "0" -> "PrivateStatic" [] p = "1" -> "ProtectedStatic"
      [] p = "2" -> "PublicStatic" [] p = "3" -> "Global"
      [] p = "4" -> "FunctionLocalStatic"

Variable_parse(c, b) ==
    IF peek(c) = NoByte THEN None(c, b)
    ELSE IF peek(c) \notin {"0", "1", "2", "3", "4"} THEN None(advance(c, 1), b)
    ELSE LET storage == StorageVariable_table(peek(c))
             c1 == advance(c, 1)
         IN IF eats(c1, "?")
            THEN LET m == Modifiers_parse(advance(c1, 1), b)
                     t == Parse("Type", m.ctx, m.br)
                 IN IF t.st # "some" THEN t
                    ELSE Some(t.ctx, t.br, [storage |-> storage, modi |-> m.val,
                                            tipe |-> t.val])
            ELSE LET t == Parse("Type", c1, b)
                 IN IF t.st # "some" THEN t
                    ELSE LET m == Modifiers_parse(t.ctx, t.br)
                         IN Some(m.ctx, m.br, [storage |-> storage, modi |-> m.val,
                                               tipe |-> t.val])

\* calling convention, return type, parameters: the tail of the three parsers.
Function_parse(c, b) ==
    LET q == IF c.parsing_qualifiers THEN FunctionQualifiers_parse(c, b)
             ELSE Some(c, b, {})
        cc == CallingConv_parse(q.ctx, q.br)
    IN IF cc.st # "some" THEN cc
       ELSE LET rt == Parse("FunctionReturnType", cc.ctx, cc.br)
            IN IF rt.st # "some" THEN rt
               ELSE LET ps == Parse("FunctionParameters", rt.ctx, rt.br)
                    IN map_val(ps, [calling_conv |-> cc.val, qualifiers |-> q.val,
                                    return_type |-> rt.val, params |-> ps.val])

\* record of a member function's return type: the member return modifier
\* that was pushed (lines 865-867, 912-914) and the return type parsed next.
note_member_return(c, modi, return_type) ==
    [c EXCEPT !.g_rets = Append(@, [modi |-> modi, return_type |-> return_type])]

MemberFunction_parse(c, b) ==
    LET ss == StorageScope_parse(c, b)
    IN IF ss.st # "some" THEN ss
       ELSE LET q == IF "STATIC" \notin ss.val THEN FunctionQualifiers_parse(ss.ctx, ss.br)
                     ELSE Some(ss.ctx, ss.br, {})
                cc == CallingConv_parse(q.ctx, q.br)
            IN IF cc.st # "some" THEN cc
               ELSE LET modi == MemberReturnModifiers_parse(cc.ctx, cc.br)
                    IN IF modi.st # "some" THEN modi
                       ELSE LET rt == Parse("FunctionReturnType", 
                                          push_modifiers(modi.ctx, modi.val), modi.br)
                            IN IF rt.st # "some" THEN rt
                               ELSE LET ps == Parse("FunctionParameters",
                                                  note_member_return(rt.ctx, modi.val, rt.val),
                                                  rt.br)
                                    IN map_val(ps, [storage_scope |-> ss.val,
                                                    calling_conv |-> cc.val,
                                                    qualifiers |-> q.val,
                                                    return_type |-> rt.val,
                                                    params |-> ps.val])

MemberFunctionPtr_parse(c, b) ==
    LET cn == Parse("Path", c, b)
    IN IF cn.st # "some" THEN cn
       ELSE LET e == eats(cn.ctx, "E")
                c1 == IF e THEN advance(cn.ctx, 1) ELSE cn.ctx
                q0 == IF e THEN {"PTR64"} ELSE {}
                q == IF c1.parsing_qualifiers THEN FunctionQualifiers_parse(c1, cn.br)
                     ELSE Some(c1, cn.br, {})
                ss == IF c1.parsing_qualifiers THEN Some(c1, cn.br, {})
                      ELSE StorageScope_parse(c1, cn.br)
                c2 == IF c1.parsing_qualifiers THEN q.ctx ELSE ss.ctx
            IN IF ss.st # "some" THEN ss
               ELSE LET cc == CallingConv_parse(c2, cn.br)
                    IN IF cc.st # "some" THEN cc
                       ELSE LET modi == MemberReturnModifiers_parse(cc.ctx, cc.br)
                            IN IF modi.st # "some" THEN modi
                               ELSE LET rt == Parse("FunctionReturnType", 
                                                  push_modifiers(modi.ctx, modi.val), modi.br)
                                    IN IF rt.st # "some" THEN rt
                                       ELSE LET ps == Parse("FunctionParameters",
                                                          note_member_return(rt.ctx, modi.val, rt.val),
                                                          rt.br)
                                            IN map_val(ps, [storage_scope |-> ss.val,
                                                            class_name |-> cn.val,
                                                            calling_conv |-> cc.val,
                                                            qualifiers |-> q0 \cup q.val,
                                                            return_type |-> rt.val,
                                                            params |-> ps.val])

\* the for _ in 0..dimensions - 1 loop: each pass reads one length for a
\* chained Array node; lens are the lengths read, outermost chained node first.
RECURSIVE Array_chain(_, _, _)
Array_chain(c, k, lens) ==
    IF k <= 0 THEN [st |-> "some", ctx |-> c, lens |-> lens]
    ELSE LET n == number(c)
         IN IF n.st # "some" THEN [st |-> "none", ctx |-> n.ctx, lens |-> lens]
            ELSE Array_chain(n.ctx, k - 1, Append(lens, n.val))

\* root.tipe is assigned the first chained node inside the loop and assigned
\* again, with the element type, after it: the node returned is the root with
\* the last length read and the element type.
Array_parse(c, b) ==
    LET dimensions == number(c)
    IN IF dimensions.st # "some" THEN None(dimensions.ctx, b)
       ELSE LET modifiers == pop_value(dimensions.ctx)
                c1 == pop_modifiers(dimensions.ctx)
            IN IF dimensions.val < 0 THEN None(c1, b)
               ELSE LET ch == Array_chain(c1, dimensions.val - 1, <<>>)
                    IN IF ch.st # "some" THEN None(ch.ctx, b)
                       ELSE LET hasC == starts_with(ch.ctx, <<"$", "$", "C">>)
                                c2 == IF hasC THEN advance(ch.ctx, 3) ELSE ch.ctx
                                p == peek(c2)
                            IN IF hasC /\ p = NoByte THEN None(c2, b)
                               ELSE IF hasC /\ p \notin {"A", "B", "C", "D"}
                               THEN None(advance(c2, 1), b)
                               ELSE LET rootmods == IF ~hasC THEN modifiers
                                                    ELSE IF p = "A" THEN {}
                                                    ELSE IF p = "B" THEN {"CONST"}
                                                    ELSE {"CONST", "VOLATILE"}
                                        c3 == IF hasC THEN advance(c2, 1) ELSE c2
                                        len == number(c3)
                                    IN IF len.st # "some" THEN None(len.ctx, b)
                                       ELSE LET t == leave(Parse("Type", enter(len.ctx), b))
                                            IN map_val(t, [modifiers |-> rootmods,
                                                           tipe |-> t.val,
                                                           len |-> len.val,
                                                           chained |-> ch.lens])

Pointee_parse(c, b) ==
    LET e == eats(c, "E")
        c1 == IF e THEN advance(c, 1) ELSE c
        m == Modifiers_parse(c1, b)
        modi == (IF e THEN {"PTR64"} ELSE {}) \cup m.val
    IN leave(Parse("Type", enter(push_modifiers(m.ctx, modi)), b))

FunctionReturnType_parse(c0, b) ==
    LET c == pop_modifiers(c0)
        q == eats(c, "?")
        c1 == IF q THEN advance(c, 1) ELSE c
        p == peek(c1)
    IN IF q /\ p = NoByte THEN None(c1, b)
       ELSE IF q /\ p \notin {"A", "B", "C", "D"} THEN None(advance(c1, 1), b)
       ELSE LET c2 == IF q THEN push_modifiers(advance(c1, 1), cv_letter(p)) ELSE c1
            IN IF eats(c2, "@") THEN Some(advance(c2, 1), b, Unit)
               ELSE leave(Parse("Type", enter(c2), b))

(***************************************************************************)
(* Parameters, FunctionParameters                                          *)
(***************************************************************************)
RECURSIVE Parameters_loop(_, _, _)

\* The context after a fresh parameter type, with the step noted in
\* g_params: the bytes the type took, the type, and the parameter table
\* before and after line 1459.
note_param_parse(c, consumed, tipe, before, after) ==
    [c EXCEPT !.g_params = Append(@,
        [consumed |-> consumed, tipe |-> tipe,
         before |-> before.params, after |-> after.params])]

\* Parameters::parse memorising every fresh type, whatever its length.
Parameters_fresh_always(start, t, types) ==
    IF t.st # "some" THEN t
    ELSE LET end == remaining(t.ctx)
             b1 == try_memorizing_param(t.br, t.val)
         IN Parameters_loop(note_param_parse(t.ctx, start - end, t.val, t.br, b1),
                            b1, Append(types, t.val))

\* lines 1453-1462: t is the result of Type::parse, start the length of the
\* input left before it.
Parameters_fresh(start, t, types) ==
    IF t.st # "some" THEN t
    ELSE LET end == remaining(t.ctx)
             b1 == IF start - end > 1 THEN try_memorizing_param(t.br, t.val)
                   ELSE t.br
         IN Parameters_loop(note_param_parse(t.ctx, start - end, t.val, t.br, b1),
                            b1, Append(types, t.val))

Parameters_loop(c, b, types) ==
    IF eats(c, "Z") THEN Some(advance(c, 1), b, types)
    ELSE IF eats(c, "@") THEN Some(advance(c, 1), b, types)
    ELSE IF remaining(c) = 0 THEN Some(c, b, types)
    ELSE IF base10(c) >= 0
    THEN IF has_memorized_param(b, base10(c))
         THEN Parameters_loop(note_param_ref(advance(c, 1), b, base10(c)), b,
                              Append(types, get_memorized_param(b, base10(c))))
         ELSE None(note_param_ref(advance(c, 1), b, base10(c)), b)
    ELSE Parameters_fresh(remaining(c), leave(Parse("Type", enter(c), b)), types)

Parameters_parse(c, b) == Parameters_loop(c, b, <<>>)

FunctionParameters_parse(c, b) ==
    LET ps == Parse("Parameters", c, b)
    IN IF ps.st # "some" THEN ps
       ELSE IF eats(ps.ctx, "Z") THEN [ps EXCEPT !.ctx = advance(@, 1)]
       ELSE ps

(***************************************************************************)
(* SymbolType, EncodedIdent                                                *)
(***************************************************************************)
\* the for _ in 0..len loop of EncodedIdent::parse.
RECURSIVE EncodedIdent_loop(_, _, _)
EncodedIdent_loop(c, b, k) ==
    IF k <= 0 THEN Some(c, b, [tag |-> "Encoded"])
    ELSE IF peek(c) = NoByte THEN None(c, b)
    ELSE IF peek(c) \in Range(Digits) \cup LowerLetters \cup {"_", "$"}
    THEN EncodedIdent_loop(advance(c, 1), b, k - 1)
    ELSE IF peek(c) = "?"
    THEN IF remaining(c) < 2 THEN None(advance(c, 1), b)
         ELSE EncodedIdent_loop(advance(c, 2), b, k - 1)
    ELSE None(advance(c, 1), b)

EncodedIdent_parse(c, b) ==
    LET width == base10(c)
    IN IF width < 0 THEN None(c, b)
       ELSE IF width > 2 THEN None(advance(c, 1), b)
       ELSE LET n == number(advance(c, 1))
            IN IF n.st # "some" THEN None(n.ctx, b)
               ELSE LET len == IF n.val < 0 \/ n.val > width * 32 THEN width * 32
                               ELSE n.val
                        m == number(n.ctx)
                    IN IF m.st # "some" THEN None(m.ctx, b)
                       ELSE EncodedIdent_loop(m.ctx, b, len)

\* the loop { if ctx.base10().is_none() { break; } .. } of the extern "C" case.
RECURSIVE skip_digits(_)
skip_digits(c) == IF base10(c) >= 0 THEN skip_digits(advance(c, 1)) ELSE c

\* lines 728-762: the $ cases of SymbolType::parse; c is after the $.
SymbolType_parse_special(c, b) ==
    IF peek(c) = NoByte THEN None(c, b)
    ELSE IF peek(c) = "$"
    THEN LET c1 == advance(c, 1)
         IN IF peek(c1) = NoByte THEN None(c1, b)
            ELSE IF peek(c1) \notin {"J", "N", "O"} THEN None(advance(c1, 1), b)
            ELSE LET c2 == advance(c1, 1)
                     c3 == skip_digits(c2)
                 IN IF c3.offset = c2.offset THEN None(c3, b)
                    ELSE LET t == Parse("SymbolType", c3, b)
                         IN map_val(t, [tag |-> "Extern", tipe |-> t.val])
    ELSE IF peek(c) = "B"
    THEN LET n == number(advance(c, 1))
         IN IF n.st # "some" THEN None(n.ctx, b)
            ELSE IF ~eats(n.ctx, "A") THEN None(n.ctx, b)
            ELSE LET cc == CallingConv_parse(advance(n.ctx, 1), b)
                 IN map_val(cc, [tag |-> "VCallThunk", offset |-> n.val,
                                 calling_conv |-> cc.val])
    ELSE None(advance(c, 1), b)

\* the parse state a sub-parse can change
parse_state(c, b) ==
    [offset |-> c.offset, depth |-> c.depth, modifiers |-> c.modifiers,
     memorized |-> b.memorized, params |-> b.params]

\* a sub-parse r that started from c and b failed and the caller goes on:
\* g_tries records the parse state before the attempt and after it.
tolerated(r, c, b) ==
    [r.ctx EXCEPT !.g_tries = Append(@, [before |-> parse_state(c, b),
                                         after |-> parse_state(r.ctx, r.br)])]

\* lines 709-720: a vftable or vbtable; the scope is optional (Option<Scope>).
SymbolType_parse_table(c, b, tag) ==
    LET q == Qualifiers_parse(c, b)
        sc == Parse("Scope", q.ctx, q.br)
    IN IF sc.st = "panic" THEN sc
       ELSE Some(IF sc.st = "none" THEN tolerated(sc, q.ctx, q.br) ELSE sc.ctx, sc.br,
                 [tag |-> tag, quali |-> q.val, has_scope |-> sc.st = "some",
                  scope |-> IF sc.st = "some" THEN sc.val ELSE <<>>])

SymbolType_parse(c, b) ==
    LET p == peek(c)
        c1 == advance(c, 1)
    IN IF p = NoByte THEN None(c, b)
       ELSE IF p \in {"0", "1", "2", "3", "4"}
       THEN LET v == Parse("Variable", c, b)
            IN map_val(v, [tag |-> "Variable", var |-> v.val])
       ELSE IF p = "5" THEN Panic(c1, b)
       ELSE IF p = "6" THEN SymbolType_parse_table(c1, b, "VFTable")
       ELSE IF p = "7" THEN SymbolType_parse_table(c1, b, "VBTable")
       ELSE IF p = "8" THEN Some(c1, b, Unit)
       ELSE IF p = "9" THEN None(c1, b)
       ELSE IF p = "Y" THEN as_function(Parse("Function", c1, b))
       ELSE IF p = "$" THEN SymbolType_parse_special(c1, b)
       ELSE IF p = "_" THEN EncodedIdent_parse(c1, b)
       ELSE as_member_function(Parse("MemberFunction", c, b))

(***************************************************************************)
(* Intrinsics                                                              *)
(***************************************************************************)
Intrinsics_table1 ==
    ("0" :> "Ctor" @@ "1" :> "Dtor" @@ "2" :> "New" @@ "3" :> "Delete" @@
     "4" :> "Assign" @@ "5" :> "ShiftRight" @@ "6" :> "ShiftLeft" @@
     "7" :> "LogicalNot" @@ "8" :> "Equals" @@ "9" :> "NotEquals" @@
     "A" :> "Array" @@ "B" :> "TypeCast" @@ "C" :> "Pointer" @@
     "D" :> "Dereference" @@ "E" :> "Increment" @@ "F" :> "Decrement" @@
     "G" :> "Minus" @@ "H" :> "Plus" @@ "I" :> "ArithmeticAND" @@
     "J" :> "MemberDereference" @@ "K" :> "Divide" @@ "L" :> "Modulus" @@
     "M" :> "Less" @@ "N" :> "LessEqual" @@ "O" :> "Greater" @@
     "P" :> "GreaterEqual" @@ "Q" :> "Comma" @@ "R" :> "Calling" @@
     "S" :> "ArithmeticNot" @@ "T" :> "Xor" @@ "U" :> "ArithmeticOR" @@
     "V" :> "LogicalAND" @@ "W" :> "LogicalOR" @@ "X" :> "TimesEquals" @@
     "Y" :> "PlusEquals" @@ "Z" :> "MinusEquals")

Intrinsics_table2 ==
    ("0" :> "DivideEquals" @@ "1" :> "ModulusEquals" @@ "2" :> "ShiftRightEquals" @@
     "3" :> "ShiftLeftEquals" @@ "4" :> "ANDEquals" @@ "5" :> "OREquals" @@
     "6" :> "XorEquals" @@ "7" :> "VFTable" @@ "8" :> "VBTable" @@ "9" :> "VCall" @@
     "A" :> "TypeOff" @@ "B" :> "LocalStaticGuard" @@ "C" :> "String" @@
     "D" :> "VBaseDtor" @@ "E" :> "VectorDeletingDtor" @@
     "F" :> "DefaultCtorClosure" @@ "G" :> "ScalarDeletingDtor" @@
     "H" :> "VecCtorIter" @@ "I" :> "VecDtorIter" @@ "J" :> "VecVbaseCtorIter" @@
     "K" :> "VdispMap" @@ "L" :> "EHVecCtorIter" @@ "M" :> "EHVecDtorIter" @@
     "N" :> "EHVecVbaseCtorIter" @@ "O" :> "CopyCtorClosure" @@
     "S" :> "LocalVFTable" @@ "T" :> "LocalVftableCtorClosure" @@
     "U" :> "NewArray" @@ "V" :> "DeleteArray" @@
     "X" :> "PlacementDeleteClosure" @@ "Y" :> "PlacementDeleteArrayClosure")

Op(tag) == [tag |-> tag]

\* Literal -> NestedPath::Literal -> Path -> Symbol (the From conversions).
NestedPath_into_Symbol(name) ==
    [path |-> [name |-> name, scope |-> <<>>], tipe |-> Unit]

\* lines 1252-1275: a nested Symbol, or else a literal.
Intrinsics_parse_dynamic(c, b, tag) ==
    LET s == Parse("Symbol", c, b)
    IN IF s.st = "panic" THEN s
       ELSE IF s.st = "some" THEN map_val(s, [tag |-> tag, sym |-> s.val])
       ELSE LET l == Literal_parse(tolerated(s, c, b), s.br)
            IN map_val(l, [tag |-> tag,
                           sym |-> NestedPath_into_Symbol([tag |-> "Literal", lit |-> l.val])])

\* lines 1220-1243: after _R.
Intrinsics_parse_rtti(c, b) ==
    LET p == peek(c)
        c1 == advance(c, 1)
    IN IF p = NoByte THEN None(c, b)
       ELSE IF p = "0"
       THEN LET t == Parse("Type", c1, b)
            IN IF t.st # "some" THEN t
               ELSE LET m == Modifiers_parse(t.ctx, t.br)
                    IN Some(m.ctx, m.br, [tag |-> "RTTITypeDescriptor", modi |-> m.val,
                                          tipe |-> t.val])
       ELSE IF p = "1"
       THEN LET n1 == number(c1)
                n2 == number(n1.ctx)
                n3 == number(n2.ctx)
                n4 == number(n3.ctx)
            IN IF n1.st # "some" THEN None(n1.ctx, b)
               ELSE IF n2.st # "some" THEN None(n2.ctx, b)
               ELSE IF n3.st # "some" THEN None(n3.ctx, b)
               ELSE IF n4.st # "some" THEN None(n4.ctx, b)
               ELSE Some(n4.ctx, b, [tag |-> "RTTIBaseClassDescriptor",
                                     nv_off |-> n1.val, ptr_off |-> n2.val,
                                     vbtable_off |-> n3.val, flags |-> n4.val])
       ELSE IF p = "2" THEN Some(c1, b, Op("RTTIBaseClassArray"))
       ELSE IF p = "3" THEN Some(c1, b, Op("RTTIClassHierarchyDescriptor"))
       ELSE IF p = "4" THEN Some(c1, b, Op("RTTIClassCompleteObjectLocator"))
       ELSE None(c1, b)

\* lines 1250-1280: after __.
Intrinsics_parse_under2(c, b) ==
    LET p == peek(c)
        c1 == advance(c, 1)
    IN IF p = NoByte THEN None(c, b)
       ELSE IF p = "L" THEN Some(c1, b, Op("CoAwait"))
       ELSE IF p = "E" THEN Intrinsics_parse_dynamic(c1, b, "DynamicInitializer")
       ELSE IF p = "F" THEN Intrinsics_parse_dynamic(c1, b, "DynamicAtExitDtor")
       ELSE IF p = "J" THEN Some(c1, b, Op("LocalStaticThreadGuard"))
       ELSE IF p = "M" THEN Some(c1, b, Op("Spaceship"))
       ELSE IF p = "K"
       THEN LET i == ident(c1)
            IN IF i.st # "some" THEN None(i.ctx, b)
               ELSE Some(i.ctx, b, [tag |-> "SourceName", lit |-> i.val])
       ELSE None(c1, b)

Intrinsics_parse(c, b) ==
    LET p == peek(c)
        c1 == advance(c, 1)
        q == peek(c1)
        c2 == advance(c1, 1)
    IN IF p = NoByte THEN None(c, b)
       ELSE IF p \in DOMAIN Intrinsics_table1 THEN Some(c1, b, Op(Intrinsics_table1[p]))
       ELSE IF p # "_" THEN None(c1, b)
       ELSE IF q = NoByte THEN None(c1, b)
       ELSE IF q \in DOMAIN Intrinsics_table2 THEN Some(c2, b, Op(Intrinsics_table2[q]))
       ELSE IF q = "R" THEN Intrinsics_parse_rtti(c2, b)
       ELSE IF q = "_" THEN Intrinsics_parse_under2(c2, b)
       ELSE None(c2, b)

(***************************************************************************)
(* Scope, Path, NestedPath, UnqualifiedPath, Template                      *)
(***************************************************************************)
Lit(l) == [tag |-> "Literal", lit |-> l]

\* the context after a loop iteration that started at from; an iteration
\* that consumed nothing is counted in g_stalls.
progress(from, c) ==
    IF c.offset > from.offset THEN c ELSE [c EXCEPT !.g_stalls = @ + 1]

\* the while !ctx.eat(b'@') loop of Scope::parse.
RECURSIVE Scope_loop(_, _, _)
Scope_loop(c, b, paths) ==
    IF eats(c, "@") THEN Some(advance(c, 1), b, paths)
    ELSE LET segment == Parse("NestedPath", c, b)
         IN IF segment.st # "some" THEN segment
            ELSE IF segment.val.tag = "Disambiguator"
            THEN Scope_loop(progress(c, segment.ctx), segment.br, paths)
            ELSE Scope_loop(progress(c, segment.ctx), segment.br,
                            Append(paths, segment.val))

\* Scope::parse stepping over the byte after the loop without looking at it.
Scope_parse_noted_unchecked(c, l) ==
    IF l.st # "some" THEN l
    ELSE LET c1 == advance(l.ctx, 1)
         IN [l EXCEPT !.ctx = [c1 EXCEPT !.g_scopes =
                                   Append(@, [start |-> c.offset,
                                              stop |-> l.ctx.offset,
                                              end |-> c1.offset])]]

\* after the loop l: ctx.consume(b'@');, its result dropped.  g_scopes
\* records the offsets at the entry of Scope::parse, after the terminator
\* that ended the loop and at the return.
Scope_parse_noted(c, l) ==
    IF l.st # "some" THEN l
    ELSE LET c1 == IF eats(l.ctx, "@") THEN advance(l.ctx, 1) ELSE l.ctx
         IN [l EXCEPT !.ctx = [c1 EXCEPT !.g_scopes =
                                   Append(@, [start |-> c.offset,
                                              stop |-> l.ctx.offset,
                                              end |-> c1.offset])]]

Scope_parse(c, b) == Scope_parse_noted(c, Scope_loop(c, b, <<>>))

Path_parse(c, b) ==
    LET name == Parse("UnqualifiedPath", c, b)
    IN IF name.st # "some" THEN name
       ELSE LET scope == Parse("Scope", name.ctx, name.br)
            IN map_val(scope, [name |-> name.val, scope |-> scope.val])

\* the while let Some(hex digit) = ctx.peek() loop of the anonymous namespace.
RECURSIVE skip_hex(_)
skip_hex(c) ==
    IF peek(c) \in Range(Digits) \cup Range(HexLower) \cup Range(HexUpper)
    THEN skip_hex(advance(c, 1))
    ELSE c

\* the and_then closure of lines 1971-1980; g_comps records the template
\* parsed, the component returned for it and the outer identifier table
\* afterwards.
NestedPath_parse_template_name(t) ==
    IF t.st # "some" THEN t
    ELSE IF t.val.name.tag = "Literal"
    THEN LET b1 == try_memorizing_ident(t.br, t.val.name.lit)
         IN Some([t.ctx EXCEPT !.g_comps = Append(@, [template |-> t.val,
                                                      node |-> t.val.name,
                                                      log |-> b1.g_identLog])],
                 b1, t.val.name)
    ELSE None(t.ctx, t.br)

\* lines 1968-1981: ?$, c is after the $.
NestedPath_parse_template(c, b) ==
    NestedPath_parse_template_name(Parse("Template", c, b))

\* lines 1982-2002: ?A, c is after the A.  g_anon records the hex run that
\* was skipped and the literal that was memorised for it.
NestedPath_parse_anonymous(c, b) ==
    LET has0x == starts_with(c, <<"0", "x">>)
        c1 == IF has0x THEN skip_hex(advance(c, 2)) ELSE c
        len == c1.offset - (c.offset + 2)
        lit == Borrowed(c1.offset, c1.offset + len)
        b1 == IF has0x THEN try_memorizing_ident(b, lit) ELSE b
        c2 == IF has0x
              THEN [c1 EXCEPT !.g_anon = Append(@, [run_start |-> c.offset + 2,
                                                    run_end |-> c1.offset,
                                                    lit |-> lit])]
              ELSE c1
    IN IF ~eats(c2, "@") THEN None(c2, b1)
       ELSE Some(advance(c2, 1), b1, [tag |-> "Anonymous"])

\* record of one ?Q component whose identifier was read: the identifier, the
\* offset after its terminating @, the offset at the return, whether the
\* component was returned and the identifier table afterwards.
note_interface(r, lit, ident_end) ==
    [r EXCEPT !.ctx.g_iface = Append(@, [lit |-> lit, ident_end |-> ident_end,
                                         end |-> r.ctx.offset, st |-> r.st,
                                         log |-> r.br.g_identLog])]

\* lines 2003-2011: ?Q, c is after the Q.
NestedPath_parse_interface(c, b) ==
    LET i == ident(c)
    IN IF i.st # "some" THEN None(i.ctx, b)
       ELSE IF ~eats(i.ctx, "@") THEN note_interface(None(i.ctx, b), i.val, i.ctx.offset)
       ELSE note_interface(Some(advance(i.ctx, 1), try_memorizing_ident(b, i.val),
                                [tag |-> "Interface", lit |-> i.val]),
                           i.val, i.ctx.offset)

NestedPath_parse(c0, b) ==
    LET d == descent(c0)
        c == d.ctx
    IN IF ~d.ok THEN None(c, b)
       ELSE IF base10(c) >= 0
       THEN LET c1 == note_ident_ref(ascent(advance(c, 1)), b, base10(c))
            IN IF has_memorized_ident(b, base10(c))
               THEN Some(c1, b, Lit(get_memorized_ident(b, base10(c))))
               ELSE None(c1, b)
       ELSE IF eats(c, "?")
       THEN LET c1 == ascent(advance(c, 1))
                p == peek(c1)
            IN IF p = NoByte THEN None(c1, b)
               ELSE IF p = "?"
               THEN LET s == Parse("Symbol", c1, b)
                    IN map_val(s, [tag |-> "Symbol", sym |-> s.val])
               ELSE IF p = "$" THEN NestedPath_parse_template(advance(c1, 1), b)
               ELSE IF p = "A" THEN NestedPath_parse_anonymous(advance(c1, 1), b)
               ELSE IF p = "Q" THEN NestedPath_parse_interface(advance(c1, 1), b)
               ELSE LET n == number_r(c1, b)
                    IN map_val(n, [tag |-> "Disambiguator", val |-> n.val])
       ELSE LET i == ident(c)
            IN IF i.st # "some" THEN None(i.ctx, b)
               ELSE Some(ascent(i.ctx), try_memorizing_ident(b, i.val), Lit(i.val))

\* UnqualifiedPath::parse unwrapping ctx.ident() instead of propagating it.
UnqualifiedPath_parse_unwrap(c0, b) ==
    LET d == descent(c0)
        c == d.ctx
    IN IF ~d.ok THEN None(c, b)
       ELSE IF base10(c) >= 0
       THEN LET c1 == note_ident_ref(ascent(advance(c, 1)), b, base10(c))
            IN IF has_memorized_ident(b, base10(c))
               THEN Some(c1, b, Lit(get_memorized_ident(b, base10(c))))
               ELSE None(c1, b)
       ELSE IF eats(c, "?")
       THEN LET c1 == advance(c, 1)
            IN IF eats(c1, "$")
               THEN LET t == Parse("Template", ascent(advance(c1, 1)), b)
                    IN map_val(t, [tag |-> "Template", template |-> t.val])
               ELSE LET op == Parse("Intrinsics", ascent(c1), b)
                    IN map_val(op, [tag |-> "Intrinsics", op |-> op.val])
       ELSE LET i == ident(c)
            IN IF i.st # "some" THEN Panic(i.ctx, b)
               ELSE Some(ascent(i.ctx), try_memorizing_ident(b, i.val), Lit(i.val))

UnqualifiedPath_parse(c0, b) ==
    LET d == descent(c0)
        c == d.ctx
    IN IF ~d.ok THEN None(c, b)
       ELSE IF base10(c) >= 0
       THEN LET c1 == note_ident_ref(ascent(advance(c, 1)), b, base10(c))
            IN IF has_memorized_ident(b, base10(c))
               THEN Some(c1, b, Lit(get_memorized_ident(b, base10(c))))
               ELSE None(c1, b)
       ELSE IF eats(c, "?")
       THEN LET c1 == advance(c, 1)
            IN IF eats(c1, "$")
               THEN LET t == Parse("Template", ascent(advance(c1, 1)), b)
                    IN map_val(t, [tag |-> "Template", template |-> t.val])
               ELSE LET op == Parse("Intrinsics", ascent(c1), b)
                    IN map_val(op, [tag |-> "Intrinsics", op |-> op.val])
       ELSE LET i == ident(c)
            IN IF i.st # "some" THEN None(i.ctx, b)
               ELSE Some(ascent(i.ctx), try_memorizing_ident(b, i.val), Lit(i.val))

\* The result r of a parse made with the template's own tables, handed back
\* with the caller's tables b; g_temps keeps the dropped tables and the tables
\* handed back.
Template_drop(r, b) ==
    [r EXCEPT !.br = b,
              !.ctx.g_temps = Append(@, [temp |-> r.br, outer |-> b]),
              !.ctx.g_tpl = SubSeq(@, 1, Len(@) - 1)]

\* the context in which the template is parsed: one level deeper, and the
\* template noted as being parsed.
Template_enter(c) == [enter(c) EXCEPT !.g_tpl = Append(@, c.offset)]

\* line 2132: the parameters, parsed with the tables the name was parsed with.
Template_parse_rest(name, params, b) ==
    leave(map_val(Template_drop(params, b),
                  [name |-> name.val, params |-> params.val]))

\* lines 2131-2132: the ? on the name, then Parameters::parse.
Template_parse_params(name, b) ==
    IF name.st # "some" THEN leave(Template_drop(name, b))
    ELSE Template_parse_rest(name, Parse("Parameters", name.ctx, name.br), b)

\* Template::parse using the caller's tables for the name and the parameters.
Template_parse_shared(c, b) ==
    LET name == Parse("UnqualifiedPath", Template_enter(c), b)
    IN IF name.st # "some" THEN leave(Template_drop(name, name.br))
       ELSE LET params == Parse("Parameters", name.ctx, name.br)
            IN leave(map_val(Template_drop(params, params.br),
                             [name |-> name.val, params |-> params.val]))

\* the name and the parameters are parsed with temp, a fresh pair of tables;
\* the tables passed in are returned as they were.
Template_parse(c, b) ==
    LET temp == [Backrefs_default EXCEPT !.g_id = c.offset + 1]
    IN Template_parse_params(Parse("UnqualifiedPath", Template_enter(c), temp), b)

(***************************************************************************)
(* Symbol                                                                  *)
(***************************************************************************)
USIZE_MAX == <<1, 8, 4, 4, 6, 7, 4, 4, 0, 7, 3, 7, 0, 9, 5, 5, 1, 6, 1, 5>>

\* n * 10 + digit on decimal digit strings (no leading zero), and its
\* comparison with usize::MAX: checked_mul / checked_add fail above it.
RECURSIVE digits_greater(_, _)
digits_greater(x, y) ==
    IF x = <<>> THEN FALSE
    ELSE IF Head(x) # Head(y) THEN Head(x) > Head(y)
    ELSE digits_greater(Tail(x), Tail(y))

exceeds_usize(n) ==
    Len(n) > Len(USIZE_MAX) \/ (Len(n) = Len(USIZE_MAX) /\ digits_greater(n, USIZE_MAX))

\* lines 2172-2177: the digits of $TSS<n>@.
RECURSIVE Symbol_parse_tss_digits(_, _)
Symbol_parse_tss_digits(c, n) ==
    IF eats(c, "@") THEN [st |-> "some", ctx |-> advance(c, 1)]
    ELSE IF base10(c) < 0 THEN [st |-> "none", ctx |-> c]
    ELSE LET n1 == IF n = <<>> /\ base10(c) = 0 THEN <<>> ELSE Append(n, base10(c))
         IN IF exceeds_usize(n1) THEN [st |-> "none", ctx |-> advance(c, 1)]
            ELSE Symbol_parse_tss_digits(advance(c, 1), n1)

\* lines 2168-2183: the thread-safe static guard ends in todo!().
Symbol_parse_tss(c, b) ==
    LET n == Symbol_parse_tss_digits(c, <<>>)
    IN IF n.st # "some" THEN None(n.ctx, b)
       ELSE Panic(ascent(n.ctx), b)

\* lines 2194-2206: a path, then the type when bytes remain.
Symbol_parse_path(c, b) ==
    LET path == Parse("Path", c, b)
    IN IF path.st # "some" THEN path
       ELSE IF peek(path.ctx) = NoByte
       THEN Some(ascent(path.ctx), path.br, [path |-> path.val, tipe |-> Unit])
       ELSE LET tipe == Parse("SymbolType", [path.ctx EXCEPT !.parsing_qualifiers = FALSE],
                                         path.br)
            IN IF tipe.st # "some" THEN tipe
               ELSE Some(ascent(tipe.ctx), tipe.br, [path |-> path.val, tipe |-> tipe.val])

Symbol_parse(c0, b) ==
    LET d == descent(c0)
        c == enter(d.ctx)
    IN IF ~d.ok THEN None(d.ctx, b)
       ELSE IF ~eats(c, "?") THEN leave(None(c, b))
       ELSE LET c1 == advance(c, 1)
            IN leave(
                IF starts_with(c1, <<"?", "@">>)
                THEN LET m == MD5_parse(ascent(advance(c1, 2)), b)
                     IN map_val(m, NestedPath_into_Symbol(m.val))
                ELSE IF starts_with(c1, <<"$", "T", "S", "S">>)
                THEN Symbol_parse_tss(advance(c1, 4), b)
                ELSE IF eats(c1, "$")
                THEN LET t == Parse("Template", ascent(advance(c1, 1)), b)
                     IN map_val(t, NestedPath_into_Symbol(
                                       [tag |-> "Template", template |-> t.val]))
                ELSE Symbol_parse_path(c1, b))

\* trait Parse, lines 131-133: the implementation selected by the node type.
Parse(T, c, b) ==
    called(CASE T = "Symbol" -> Symbol_parse(calling(T, c), b)
             [] T = "Type" -> Type_parse(calling(T, c), b)
             [] T = "Path" -> Path_parse(calling(T, c), b)
             [] T = "Scope" -> Scope_parse(calling(T, c), b)
             [] T = "Template" -> Template_parse(calling(T, c), b)
             [] T = "Parameters" -> Parameters_parse(calling(T, c), b)
             [] T = "SymbolType" -> SymbolType_parse(calling(T, c), b)
             [] T = "Function" -> Function_parse(calling(T, c), b)
             [] T = "MemberFunction" -> MemberFunction_parse(calling(T, c), b)
             [] T = "MemberFunctionPtr" -> MemberFunctionPtr_parse(calling(T, c), b)
             [] T = "Array" -> Array_parse(calling(T, c), b)
             [] T = "Pointee" -> Pointee_parse(calling(T, c), b)
             [] T = "FunctionReturnType" -> FunctionReturnType_parse(calling(T, c), b)
             [] T = "FunctionParameters" -> FunctionParameters_parse(calling(T, c), b)
             [] T = "Intrinsics" -> Intrinsics_parse(calling(T, c), b)
             [] T = "NestedPath" -> NestedPath_parse(calling(T, c), b)
             [] T = "UnqualifiedPath" -> UnqualifiedPath_parse(calling(T, c), b)
             [] T = "Variable" -> Variable_parse(calling(T, c), b))

(***************************************************************************)
(* Formatting.  The render state is the token stream (a sequence of        *)
(* <<text, colour>>), the scope view, and whether the formatter panicked.  *)
(***************************************************************************)
\* traits Format and PositionalFormat (lines 102-128): Format(F, x, r) is the
\* method named F of node x; the formatters call each other through it.
RECURSIVE Format(_, _, _)

Colors == {"RED", "BLUE", "MAGENTA", "PURPLE", "WHITE", "GRAY20", "GRAY40", "GREEN"}

Render_new(src) == [src |-> src, stream |-> <<>>, scope |-> <<>>, panic |-> FALSE]

push(r, text, color) ==
    IF r.panic THEN r ELSE [r EXCEPT !.stream = Append(@, <<text, color>>)]

push_cow(r, text, color) == push(r, text, color)

\* push_literal: the bytes src[start..end]; a range outside the input panics.
push_literal(r, lit, color) ==
    IF lit.start <= lit.end /\ lit.end <= Len(r.src)
    THEN push(r, Concat(SubSeq(r.src, lit.start + 1, lit.end)), color)
    ELSE [r EXCEPT !.panic = TRUE]

to_string(n) == ToString(n)

\* the two quote bytes that frame compiler-generated names.
Quotes == "`'"
Backtick == SubSeq(Quotes, 1, 1)
Apostrophe == SubSeq(Quotes, 2, 2)

Modifiers_demangle(modi, r) ==
    LET r1 == IF "CONST" \in modi THEN push(r, " const", "BLUE") ELSE r
    IN IF "VOLATILE" \in modi THEN push(r1, " volatile", "BLUE") ELSE r1

Qualifiers_demangle(q, r) ==
    LET r1 == IF "CONST" \in q THEN push(r, "const ", "BLUE") ELSE r
        r2 == IF "VOLATILE" \in q THEN push(r1, "volatile ", "BLUE") ELSE r1
        r3 == IF "FAR" \in q THEN push(r2, "__far ", "BLUE") ELSE r2
        r4 == IF "UNALIGNED" \in q THEN push(r3, "__unaligned ", "BLUE") ELSE r3
        r5 == IF "RESTRICT" \in q THEN push(r4, "__restrict ", "BLUE") ELSE r4
        r6 == IF "LVALUE" \in q THEN push(r5, "& ", "BLUE") ELSE r5
    IN IF "RVALUE" \in q THEN push(r6, "&& ", "BLUE") ELSE r6

CallingConv_demangle(cc, r) ==
    push(r, CASE cc = "Cdecl" -> "__cdecl" [] cc = "Pascal" -> "__pascal"
              [] cc = "Thiscall" -> "__thiscall" [] cc = "Stdcall" -> "__stdcall"
              [] cc = "Fastcall" -> "__fastcall" [] cc = "Clrcall" -> "__clrcall"
              [] cc = "Eabi" -> "__eabicall" [] cc = "Vectorcall" -> "__vectorcall",
         "GRAY40")

StorageVariable_demangle(storage, r) ==
    IF storage = "PrivateStatic" THEN push(r, "private: static ", "PURPLE")
    ELSE IF storage = "ProtectedStatic" THEN push(r, "protected: static ", "PURPLE")
    ELSE IF storage = "PublicStatic" THEN push(r, "public: static ", "PURPLE")
    ELSE r

StorageScope_demangle(ss, r) ==
    LET r1 == IF "PUBLIC" \in ss THEN push(r, "public: ", "MAGENTA") ELSE r
        r2 == IF "PRIVATE" \in ss THEN push(r1, "private: ", "MAGENTA") ELSE r1
        r3 == IF "PROTECTED" \in ss THEN push(r2, "protected: ", "MAGENTA") ELSE r2
        r4 == IF "STATIC" \in ss THEN push(r3, "static ", "MAGENTA") ELSE r3
    IN IF "VIRTUAL" \in ss THEN push(r4, "virtual ", "MAGENTA") ELSE r4

MD5_demangle(md5, r) ==
    push(push_literal(push(r, "??@", "GRAY20"), md5.lit, "GRAY20"), "@", "GRAY20")

PrimitiveText ==
    ("Void" :> "void" @@ "Char" :> "char" @@ "Char8" :> "char8_t" @@
     "Char16" :> "char16_t" @@ "Char32" :> "char32_t" @@ "IChar" :> "signed char" @@
     "UChar" :> "unsigned char" @@ "WChar" :> "wchar_t" @@ "IShort" :> "short" @@
     "UShort" :> "unsigned short" @@ "Int" :> "int" @@ "UInt" :> "unsigned int" @@
     "Float" :> "float" @@ "Double" :> "double" @@ "LDouble" :> "long double" @@
     "Long" :> "long" @@ "ULong" :> "unsigned long" @@ "Int8" :> "__int8" @@
     "UInt8" :> "unsigned __int8" @@ "Int16" :> "__int16" @@
     "UInt16" :> "unsigned __int16" @@ "Int32" :> "__int32" @@
     "UInt32" :> "unsigned __int32" @@ "Int64" :> "__int64" @@
     "UInt64" :> "unsigned __int64" @@ "Int128" :> "__int128" @@
     "Uint128" :> "unsigned __int128" @@ "Bool" :> "bool")

PathTypeText ==
    ("Union" :> "union " @@ "Enum" :> "enum " @@ "Struct" :> "struct " @@
     "Class" :> "class ")

FunctionReturnType_demangle_pre(t, r) ==
    LET r1 == Format("Type_demangle_pre", t, r)
    IN IF t.tag # "Unit" THEN push(r1, " ", "WHITE") ELSE r1

FunctionReturnType_demangle_post(t, r) == Format("Type_demangle_post", t, r)

FunctionParameters_demangle(params, r) ==
    push(Format("Parameters_demangle", params, push(r, "(", "GRAY40")), ")", "GRAY40")

\* lines 534-572: a pointer or reference; the pointee decides the parenthesis.
Type_demangle_pre_pointer(t, r) ==
    LET tipe == t.tipe
        r1 == IF tipe.tag = "Function"
              THEN CallingConv_demangle(tipe.func.calling_conv,
                       push(FunctionReturnType_demangle_pre(tipe.func.return_type, r),
                            "(", "GRAY40"))
              ELSE IF tipe.tag = "MemberFunction"
              THEN CallingConv_demangle(tipe.func.calling_conv,
                       FunctionReturnType_demangle_pre(tipe.func.return_type,
                           StorageScope_demangle(tipe.func.storage_scope, r)))
              ELSE IF tipe.tag = "MemberFunctionPtr"
              THEN CallingConv_demangle(tipe.func.calling_conv,
                       push(FunctionReturnType_demangle_pre(tipe.func.return_type,
                                StorageScope_demangle(tipe.func.storage_scope, r)),
                            "(", "GRAY40"))
              ELSE IF tipe.tag = "Array"
              THEN push(Format("Type_demangle_pre", tipe, r), " (", "GRAY40")
              ELSE Format("Type_demangle_pre", tipe, r)
        r2 == IF t.tag = "Ptr" THEN push(r1, " *", "RED")
              ELSE IF t.tag = "Ref" THEN push(r1, " &", "RED")
              ELSE push(r1, " &&", "RED")
    IN Modifiers_demangle(t.modi, r2)

Type_demangle_pre(t, r) ==
    IF t.tag = "Unit" THEN r
    ELSE IF t.tag = "Nullptr" THEN push(r, "std::nullptr_t", "MAGENTA")
    ELSE IF t.tag \in DOMAIN PrimitiveText
    THEN Modifiers_demangle(t.modi, push(r, PrimitiveText[t.tag], "MAGENTA"))
    ELSE IF t.tag = "W64"
    THEN Modifiers_demangle(t.modi,
             Format("Type_demangle_post", t.tipe,
                 Format("Type_demangle_pre", t.tipe, push(r, "__w64 ", "MAGENTA"))))
    ELSE IF t.tag \in DOMAIN PathTypeText
    THEN Modifiers_demangle(t.modi,
             Format("Path_demangle", t.name, push(r, PathTypeText[t.tag], "MAGENTA")))
    ELSE IF t.tag \in {"Ptr", "Ref", "RValueRef"} THEN Type_demangle_pre_pointer(t, r)
    ELSE IF t.tag = "Function"
    THEN push(CallingConv_demangle(t.func.calling_conv,
                  FunctionReturnType_demangle_pre(t.func.return_type, r)),
              " ", "WHITE")
    ELSE IF t.tag = "MemberFunction"
    THEN push(CallingConv_demangle(t.func.calling_conv,
                  FunctionReturnType_demangle_pre(t.func.return_type,
                      StorageScope_demangle(t.func.storage_scope, r))),
              " ", "WHITE")
    ELSE IF t.tag = "MemberFunctionPtr"
    THEN push(Format("Path_demangle", t.func.class_name,
                  push(CallingConv_demangle(t.func.calling_conv,
                           push(FunctionReturnType_demangle_pre(t.func.return_type,
                                    StorageScope_demangle(t.func.storage_scope, r)),
                                "(", "GRAY40")),
                       "  ", "WHITE")),
              "::*", "GRAY40")
    ELSE IF t.tag = "Constant" THEN push_cow(r, to_string(t.val), "GRAY20")
    ELSE IF t.tag = "TemplateParameterIdx" THEN [r EXCEPT !.panic = TRUE]
    ELSE IF t.tag = "Typedef"
    THEN Modifiers_demangle(t.modi, push_literal(r, t.name, "PURPLE"))
    ELSE IF t.tag = "Variable"
    THEN push(Modifiers_demangle(t.var.modi,
                  Format("Type_demangle_pre", t.var.tipe,
                      StorageVariable_demangle(t.var.storage, r))),
              " ", "WHITE")
    ELSE IF t.tag = "Encoded" THEN r
    ELSE IF t.tag = "Array" THEN Format("Type_demangle_pre", t.array.tipe, r)
    ELSE IF t.tag \in {"VFTable", "VBTable"} THEN Qualifiers_demangle(t.quali, r)
    ELSE IF t.tag = "VCallThunk"
    THEN CallingConv_demangle(t.calling_conv, push(r, "[thunk]: ", "GRAY40"))
    ELSE IF t.tag = "Extern"
    THEN Format("Type_demangle_pre", t.tipe, push(r, "extern \"C\" ", "GRAY40"))
    ELSE push(r, "...", "GRAY40")

RECURSIVE Scope_demangle_from(_, _, _)
\* Scope::demangle: the components in reverse, :: between them.
Scope_demangle_from(scope, i, r) ==
    IF i < 1 THEN r
    ELSE LET r1 == Format("NestedPath_demangle", scope[i], r)
             r2 == IF i # 1 THEN push(r1, "::", "GRAY20") ELSE r1
         IN Scope_demangle_from(scope, i - 1, r2)

Scope_demangle(scope, r) == Scope_demangle_from(scope, Len(scope), r)

ForOpen == "{for " \o Backtick
ForClose == Apostrophe \o "}"

Type_demangle_post(t, r) ==
    IF t.tag \in {"Ptr", "Ref"}
    THEN Format("Type_demangle_post", t.tipe,
             IF t.tipe.tag \in {"Function", "MemberFunction", "MemberFunctionPtr", "Array"}
             THEN push(r, ")", "GRAY40") ELSE r)
    ELSE IF t.tag \in {"Function", "MemberFunction", "MemberFunctionPtr"}
    THEN FunctionReturnType_demangle_post(t.func.return_type,
             Qualifiers_demangle(t.func.qualifiers,
                 FunctionParameters_demangle(t.func.params, r)))
    ELSE IF t.tag = "Variable" THEN Format("Type_demangle_post", t.var.tipe, r)
    ELSE IF t.tag = "Array"
    THEN Format("Type_demangle_post", t.array.tipe,
             push(push_cow(push(r, "[", "GRAY40"), to_string(t.array.len), "BLUE"),
                  "]", "GRAY40"))
    ELSE IF t.tag \in {"VBTable", "VFTable"}
    THEN IF t.has_scope /\ t.scope # <<>>
         THEN push(Scope_demangle(t.scope, push(r, ForOpen, "GRAY40")), ForClose, "GRAY40")
         ELSE IF ~t.has_scope THEN push(r, "{for ??}", "GRAY40")
         ELSE r
    ELSE IF t.tag = "VCallThunk"
    THEN push(push_cow(push(r, "{{", "GRAY40"), to_string(t.offset), "BLUE"),
              ", {{flat}}}}", "GRAY40")
    ELSE IF t.tag \in {"Extern", "W64"} THEN Format("Type_demangle_post", t.tipe, r)
    ELSE r

Type_demangle(t, r) == Format("Type_demangle_post", t, Format("Type_demangle_pre", t, r))

RECURSIVE Parameters_demangle_from(_, _, _)
Parameters_demangle_from(params, i, r) ==
    IF i > Len(params) THEN r
    ELSE Parameters_demangle_from(params, i + 1,
             Type_demangle(params[i], IF i > 1 THEN push(r, ", ", "GRAY40") ELSE r))

Parameters_demangle(params, r) == Parameters_demangle_from(params, 1, r)

(***************************************************************************)
(* Intrinsics, NestedPath, Template, Path, Symbol formatting               *)
(***************************************************************************)
IntrinsicsText ==
    ("New" :> "operator new" @@ "Delete" :> "operator delete" @@
     "Assign" :> "operator=" @@ "ShiftRight" :> "operator>>" @@
     "ShiftRightEquals" :> "operator>>=" @@ "ShiftLeft" :> "operator<<" @@
     "ShiftLeftEquals" :> "operator<<=" @@ "LogicalNot" :> "operator!" @@
     "Equals" :> "operator=" @@ "NotEquals" :> "operator!=" @@
     "TypeCast" :> "operator[]" @@ "Array" :> "operatorcast" @@
     "Pointer" :> "operator->" @@ "Dereference" :> "operator*" @@
     "TimesEquals" :> "operator*=" @@ "MemberDereference" :> "operator->*" @@
     "Increment" :> "operator++" @@ "Decrement" :> "operator--" @@
     "Minus" :> "operator-" @@ "MinusEquals" :> "operator-=" @@
     "Plus" :> "operator+" @@ "PlusEquals" :> "operator+=" @@
     "ArithmeticAND" :> "operator&" @@ "ANDEquals" :> "operator&=" @@
     "LogicalAND" :> "operator&&" @@ "ArithmeticOR" :> "operator|" @@
     "OREquals" :> "operator|=" @@ "LogicalOR" :> "operator||" @@
     "Divide" :> "operator/" @@ "DivideEquals" :> "operator/=" @@
     "Modulus" :> "operator%" @@ "ModulusEquals" :> "operator%=" @@
     "Less" :> "operator<" @@ "LessEqual" :> "operator<=" @@
     "Greater" :> "operator>" @@ "GreaterEqual" :> "operator>=" @@
     "Comma" :> "operator," @@ "Calling" :> "operator()" @@
     "ArithmeticNot" :> "operator~" @@ "Xor" :> "operator^" @@
     "XorEquals" :> "operator^=" @@ "VFTable" :> "`vftable'" @@
     "VBTable" :> "`vbtable'" @@ "LocalVFTable" :> "`local vftable'" @@
     "VCall" :> "`vcall'" @@ "TypeOff" :> "`typeoff'" @@
     "LocalStaticGuard" :> "`local static guard'" @@ "String" :> "`string'" @@
     "VBaseDtor" :> "`vbase destructor'" @@
     "VectorDeletingDtor" :> "`vector deleting destructor'" @@
     "DefaultCtorClosure" :> "`default constructor closure'" @@
     "ScalarDeletingDtor" :> "`scalar deleting destructor'" @@
     "VecCtorIter" :> "`vector constructor iterator'" @@
     "VecDtorIter" :> "`vector destructor iterator'" @@
     "VecVbaseCtorIter" :> "`vector vbase constructor iterator'" @@
     "VdispMap" :> "`virtual displacement map'" @@
     "EHVecCtorIter" :> "`eh vector constructor iterator'" @@
     "EHVecDtorIter" :> "`eh vector destructor iterator'" @@
     "EHVecVbaseCtorIter" :> "`eh vector vbase constructor iterator'" @@
     "CopyCtorClosure" :> "`copy constructor closure'" @@
     "LocalVftableCtorClosure" :> "`local vftable constructor closure'" @@
     "LocalStaticThreadGuard" :> "`local static thread guard'" @@
     "PlacementDeleteClosure" :> "`placement delete closure'" @@
     "PlacementDeleteArrayClosure" :> "`placement delete[] closure'" @@
     "NewArray" :> "operator new[]" @@ "DeleteArray" :> "operator delete[]" @@
     "CoAwait" :> "co_await" @@ "Spaceship" :> "operator<=>")

UnnamedCtor == "`unnamed constructor'"
UnnamedDtor == "`unnamed destructor'"
DynInitOpen == "`dynamic initializer for '"
DynDtorOpen == "`dynamic atexit destructor for '"
DynClose == "''"
RttiTypeDescriptor == " `RTTI Type Descriptor'"
RttiOpen == Backtick \o "RTTI Base Class Descriptor at ("

\* lines 1293-1310: the constructor and destructor take ctx.scope.get(0).
\* the constructor named after the last scope component instead of get(0).
Intrinsics_demangle_ctor_outermost(r) ==
    IF Len(r.scope) >= 1 /\ r.scope[Len(r.scope)].tag = "Literal"
    THEN push_literal(r, r.scope[Len(r.scope)].lit, "BLUE")
    ELSE push(r, UnnamedCtor, "GRAY20")

Intrinsics_demangle_ctor(r) ==
    IF Len(r.scope) >= 1 /\ r.scope[1].tag = "Literal"
    THEN push_literal(r, r.scope[1].lit, "BLUE")
    ELSE push(r, UnnamedCtor, "GRAY20")

Intrinsics_demangle_dtor(r) ==
    LET r1 == push(r, "~", "MAGENTA")
    IN IF Len(r1.scope) >= 1 /\ r1.scope[1].tag = "Literal"
       THEN push_literal(r1, r1.scope[1].lit, "BLUE")
       ELSE push(r1, UnnamedDtor, "GRAY20")

Intrinsics_demangle(op, r) ==
    IF op.tag = "Ctor" THEN Intrinsics_demangle_ctor(r)
    ELSE IF op.tag = "Dtor" THEN Intrinsics_demangle_dtor(r)
    ELSE IF op.tag = "DynamicInitializer"
    THEN push(Format("Symbol_demangle", op.sym, push(r, DynInitOpen, "GRAY20")), DynClose, "GRAY40")
    ELSE IF op.tag = "DynamicAtExitDtor"
    THEN push(Format("Symbol_demangle", op.sym, push(r, DynDtorOpen, "GRAY20")), DynClose, "GRAY40")
    ELSE IF op.tag = "SourceName" THEN push_literal(r, op.lit, "MAGENTA")
    ELSE IF op.tag = "RTTITypeDescriptor"
    THEN push(Type_demangle(op.tipe, r), RttiTypeDescriptor, "GRAY40")
    ELSE IF op.tag = "RTTIBaseClassDescriptor"
    THEN push_cow(r, RttiOpen \o to_string(op.nv_off) \o ", "
                       \o to_string(op.ptr_off) \o ", " \o to_string(op.vbtable_off)
                       \o ", " \o to_string(op.flags) \o ")" \o Apostrophe, "GRAY40")
    ELSE IF op.tag = "RTTIBaseClassArray"
    THEN push(r, "`RTTI Base Class Array'", "GRAY40")
    ELSE IF op.tag = "RTTIClassHierarchyDescriptor"
    THEN push(r, "`RTTI Class Hierarchy Descriptor'", "GRAY40")
    ELSE IF op.tag = "RTTIClassCompleteObjectLocator"
    THEN push(r, "`RTTI Complete Object Locator'", "GRAY40")
    ELSE push(r, IntrinsicsText[op.tag], "MAGENTA")

Template_demangle(template, r) ==
    push(Format("Parameters_demangle", template.params,
             push(Format("NestedPath_demangle", template.name, r), "<", "GRAY40")),
         ">", "GRAY40")

AnonymousText == "`anonymous namespace'"

NestedPath_demangle(np, r) ==
    IF np.tag = "Literal" THEN push_literal(r, np.lit, "BLUE")
    ELSE IF np.tag = "Interface"
    THEN push(push_literal(push(r, "[", "GRAY40"), np.lit, "BLUE"), "]", "GRAY40")
    ELSE IF np.tag = "Template" THEN Template_demangle(np.template, r)
    ELSE IF np.tag = "Intrinsics" THEN Intrinsics_demangle(np.op, r)
    ELSE IF np.tag = "Symbol" THEN Format("Symbol_demangle", np.sym, r)
    ELSE IF np.tag = "Disambiguator"
    THEN push_cow(r, Backtick \o to_string(np.val) \o Apostrophe, "GRAY20")
    ELSE IF np.tag = "MD5" THEN MD5_demangle(np, r)
    ELSE push(r, AnonymousText, "GRAY40")

\* Path::demangle leaving out the name.
Path_demangle_scope_only(path, r) ==
    LET r1 == Scope_demangle(path.scope, r)
    IN IF path.scope # <<>> THEN push(r1, "::", "GRAY20") ELSE r1

Path_demangle(path, r) ==
    LET r1 == Scope_demangle(path.scope, r)
        r2 == IF path.scope # <<>> THEN push(r1, "::", "GRAY20") ELSE r1
    IN Format("NestedPath_demangle", path.name, r2)

\* lines 2215-2226: a type cast needs both the path and the type.
Symbol_demangle_typecast(s, r) ==
    LET func == s.tipe.func
        r1 == push(CallingConv_demangle(func.calling_conv,
                       StorageScope_demangle(func.storage_scope, r)),
                   " ", "WHITE")
        r2 == push(Scope_demangle(s.path.scope, r1), "::operator ", "MAGENTA")
    IN FunctionParameters_demangle(func.params, Type_demangle(func.return_type, r2))

\* Symbol::demangle with the path rendered before the type prefix.
Symbol_demangle_path_first(s, r0) ==
    LET r == [r0 EXCEPT !.scope = s.path.scope]
    IN IF s.path.name.tag = "Intrinsics" /\ s.path.name.op.tag = "TypeCast"
          /\ s.tipe.tag = "MemberFunction"
       THEN Symbol_demangle_typecast(s, r)
       ELSE LET r1 == Format("Type_demangle_post", s.tipe,
                          Format("Type_demangle_pre", s.tipe, Format("Path_demangle", s.path, r)))
            IN [r1 EXCEPT !.scope = <<>>]

Symbol_demangle(s, r0) ==
    LET r == [r0 EXCEPT !.scope = s.path.scope]
    IN IF s.path.name.tag = "Intrinsics" /\ s.path.name.op.tag = "TypeCast"
          /\ s.tipe.tag = "MemberFunction"
       THEN Symbol_demangle_typecast(s, r)
       ELSE LET r1 == Format("Type_demangle_post", s.tipe,
                          Format("Path_demangle", s.path, Format("Type_demangle_pre", s.tipe, r)))
            IN [r1 EXCEPT !.scope = <<>>]

\* traits Format and PositionalFormat, lines 102-128: the method selected by
\* the node type.  Nothing runs after a panic.
Format(F, x, r) ==
    IF r.panic THEN r
    ELSE
    CASE F = "Type_demangle_pre" -> Type_demangle_pre(x, r)
      [] F = "Type_demangle_post" -> Type_demangle_post(x, r)
      [] F = "Symbol_demangle" -> Symbol_demangle(x, r)
      [] F = "Path_demangle" -> Path_demangle(x, r)
      [] F = "NestedPath_demangle" -> NestedPath_demangle(x, r)
      [] F = "Parameters_demangle" -> Parameters_demangle(x, r)

(***************************************************************************)
(* The text of a token stream.                                             *)
(***************************************************************************)
RECURSIVE Text(_)
Text(stream) == IF stream = <<>> THEN "" ELSE Head(stream)[1] \o Text(Tail(stream))

(***************************************************************************)
(* Inputs.                                                                 *)
(***************************************************************************)
Seeds ==
    {
     <<"?", "x", "@", "@", "3", "H", "A">>,
     <<"?", "f", "n", "@", "@", "Y", "A", "H", "H", "@", "Z">>,
     <<"?", "f", "o", "o", "@", "N", "S", "@", "@", "Y", "A", "X", "X", "Z">>,
     <<"?", "?", "0", "A", "@", "@", "Q", "A", "E", "@", "X", "Z">>,
     <<"?", "?", "1", "A", "@", "@", "U", "A", "E", "@", "X", "Z">>,
     <<"?", "f", "@", "@", "Y", "A", "P", "A", "H", "X", "Z">>,
     <<"?", "g", "@", "@", "Y", "A", "P", "6", "A", "H", "H", "@", "Z", "X", "Z">>,
     <<"?", "?", "0", "@", "Q", "A", "E", "@", "X", "Z">>,
     <<"?", "?", "1", "@", "U", "A", "E", "@", "X", "Z">>,
     <<"?", "?", "0", "B", "@", "A", "@", "@", "Q", "A", "E", "@", "X", "Z">>,
     <<"?", "?", "1", "B", "@", "A", "@", "@", "U", "A", "E", "@", "X", "Z">>,
     <<"?", "?", "0", "A", "@", "0", "@", "Q", "A", "E", "@", "X", "Z">>,
     <<"?", "x", "@", "@", "5">>,
     <<"?", "x", "@", "@", "3", "$", "D", "0", "A">>,
     <<"?", "f", "@", "@", "Y", "A", "X", "?", "0", "@", "Z">>,
     <<"?", "$", "T", "S", "S", "0", "@", "x", "@", "@">>,
     <<"?", "$", "T", "S", "S", "1", "2", "@">>,
     <<"?", "$", "T", "S", "S", "x", "@">>,
     <<"?", "x", "@", "@", "3", "P", "A", "$", "$", "T", "A">>,
     <<"?", "x", "@", "@", "3", "P", "A", "P", "A", "H", "A">>,
     <<"?", "f", "@", "@", "Q", "A", "E", "?", "A", "H", "X", "Z">>,
     <<"?", "f", "@", "@", "Y", "A", "X", "P", "A", "H", "P", "A", "0", "@", "Z">>,
     <<"?", "?", "_", "_", "E", "f", "o", "o", "@", "@", "Y", "A", "X", "X", "Z">>,
     <<"?", "?", "_", "7", "A", "@", "@", "6", "B", "@">>,
     <<"?", "x", "@", "?", "$", "T", "@", "H", "@", "@", "3", "H", "A">>,
     <<"?", "x", "@", "?", "?", "f", "@", "@", "Y", "A", "X", "X", "Z", "@", "3", "H", "A">>,
     <<"?", "x", "@", "@", "3", "P", "8", "A", "@", "@", "A", "E", "H", "X", "Z", "A">>,
     <<"?", "x", "@", "N", "@", "@", "3", "Y", "0", "1", "H", "A">>
    }

\* the bytes appended to a truncated seed
Alphabet == {"?", "@", "$", "0", "5", "A", "P", "Y", "Z", "x", "_", "."}

MaxTail == 1
MaxHex == 34

RECURSIVE Tails(_)
Tails(n) ==
    IF n = 0 THEN {<<>>}
    ELSE LET T == Tails(n - 1)
         IN T \cup {Append(t, a) : t \in {u \in T : Len(u) = n - 1}, a \in Alphabet}

\* every prefix of every seed, followed by every tail of at most MaxTail bytes
Perturbed ==
    UNION {{SubSeq(s, 1, k) \o t : k \in 0..Len(s), t \in Tails(MaxTail)} : s \in Seeds}

HexBytes == Digits \o HexLower \o HexUpper
HexRun(n) == [i \in 1..n |-> HexBytes[((i - 1) % Len(HexBytes)) + 1]]
Md5Tails == {<<>>, <<"@">>, <<"x">>, <<"@", "x">>, <<"g", "@">>}

\* the MD5 form with every run length up to MaxHex
Md5Inputs ==
    {<<"?", "?", "@">> \o HexRun(n) \o t : n \in 0..MaxHex, t \in Md5Tails}

\* inputs that fill and overfill the two back-reference tables and refer
\* to their entries: twelve names then the references 9 and 0; twelve
\* parameter types then the references 9 and 0; references to empty slots.
In_names == <<"?", "x", "@", "a", "@", "b", "@", "c", "@", "d", "@", "e", "@", "f", "@", "g", "@", "h", "@", "i", "@", "j", "@", "k", "@", "9", "0", "@", "3", "H", "A">>
In_params == <<"?", "f", "@", "@", "Y", "A", "X", "P", "A", "H", "P", "A", "D", "P", "A", "F", "P", "A", "J", "P", "A", "N", "P", "A", "M", "P", "B", "H", "P", "B", "D", "P", "B", "F", "P", "B", "J", "P", "B", "N", "P", "B", "M", "9", "0", "@", "Z">>
\* templates: a parameter reference inside a template and the same digit
\* after it; a template as a scope component and a reference to its name;
\* an identifier reference inside a template.
In_tpl_params == <<"?", "f", "@", "@", "Y", "A", "X", "P", "A", "H", "V", "?", "$", "U", "@", "P", "A", "D", "0", "@", "@", "@", "0", "@", "Z">>
In_tpl_scope == <<"?", "x", "@", "?", "$", "T", "@", "H", "@", "1", "@", "3", "H", "A">>
In_tpl_names == <<"?", "f", "@", "@", "Y", "A", "X", "V", "?", "$", "U", "@", "V", "0", "@", "@", "@", "@", "Z">>
\* a parameter list with a three-byte type, a one-byte type, a digit and a
\* two-byte type
In_param_sizes == <<"?", "f", "@", "@", "Y", "A", "X", "P", "A", "H", "H", "0", "_", "N", "@", "Z">>
TableSeeds ==
    {In_names, In_params, In_tpl_params, In_tpl_scope, In_tpl_names, In_param_sizes,
     <<"?", "x", "@", "a", "@", "5", "@", "3", "H", "A">>,
     <<"?", "f", "@", "@", "Y", "A", "X", "P", "A", "H", "3", "@", "Z">>}

\* types and functions whose rendering has two passes, qualifiers, array
\* extents or member return modifiers: a const member function, a pointer
\* to a member function, an rvalue reference to a function, pointers and
\* references to arrays, arrays of one, two and three dimensions, and
\* member functions with each member return modifier.
RenderSeeds ==
    {<<"?", "f", "@", "@", "Q", "B", "E", "H", "X", "Z">>,
     <<"?", "x", "@", "@", "3", "$", "$", "Q", "A", "H", "H", "@", "Z", "A">>,
     <<"?", "x", "@", "@", "3", "P", "6", "A", "H", "H", "@", "Z", "A">>,
     <<"?", "x", "@", "@", "3", "P", "A", "Y", "0", "1", "H", "A">>,
     <<"?", "x", "@", "@", "3", "Y", "1", "1", "2", "H", "A">>,
     <<"?", "x", "@", "@", "3", "Y", "2", "1", "2", "3", "H", "A">>,
     <<"?", "x", "@", "@", "3", "P", "A", "Y", "1", "1", "2", "H", "A">>,
     <<"?", "x", "@", "@", "3", "Y", "?", "0", "H", "A">>,
     <<"?", "f", "@", "@", "Q", "A", "E", "?", "B", "H", "X", "Z">>,
     <<"?", "f", "@", "@", "Q", "A", "E", "?", "D", "P", "A", "H", "X", "Z">>,
     <<"?", "f", "@", "@", "Q", "A", "E", "?", "A", "?", "B", "H", "X", "Z">>,
     <<"?", "x", "@", "@", "3", "P", "8", "A", "@", "@", "A", "E", "?", "C", "H", "X", "Z", "A">>}

\* member functions with runs of qualifier-addition bytes: four accepted
\* bytes, a fifth left for the calling convention, an rvalue byte after an
\* lvalue byte and the reverse, and a conflict after two accepted bytes.
QualifierSeeds ==
    {<<"?", "f", "@", "@", "Q", "E", "I", "F", "G", "A", "E", "X", "X", "Z">>,
     <<"?", "f", "@", "@", "Q", "E", "I", "F", "E", "E", "X", "X", "Z">>,
     <<"?", "f", "@", "@", "Q", "G", "H", "X", "X", "Z">>,
     <<"?", "f", "@", "@", "Q", "H", "G", "X", "X", "Z">>,
     <<"?", "f", "@", "@", "Q", "E", "H", "G", "X", "X", "Z">>,
     <<"?", "f", "@", "@", "Q", "H", "B", "E", "X", "X", "Z">>}

\* scopes followed by a terminator of the enclosing construct: a class as
\* the last parameter, a class as the last template argument of a scope
\* component, anonymous namespaces with a reference to the memorised hex
\* run, interface components with one and with two terminators, and the
\* constructor and the destructor of a class local to a function, and a
\* vftable whose scope fails after its first component.
ScopeSeeds ==
    {<<"?", "f", "@", "@", "Y", "A", "X", "V", "A", "@", "@", "@", "Z">>,
     <<"?", "x", "@", "?", "$", "T", "@", "V", "A", "@", "@", "@", "@", "3", "H", "A">>,
     <<"?", "x", "@", "?", "A", "0", "x", "a", "b", "@", "1", "@", "3", "H", "A">>,
     <<"?", "x", "@", "?", "A", "0", "x", "a", "b", "c", "d", "e", "f", "a", "b", "@", "1", "@", "3", "H", "A">>,
     <<"?", "x", "@", "?", "Q", "I", "@", "@", "1", "@", "3", "H", "A">>,
     <<"?", "x", "@", "?", "Q", "I", "@", "@", "3", "H", "A">>,
     <<"?", "x", "@", "?", "Q", "I", "@", "@", "@", "3", "H", "A">>,
     <<"?", "?", "0", "A", "@", "?", "?", "f", "@", "@", "Y", "A", "X", "X", "Z", "@", "Q", "A", "E", "@", "X", "Z">>,
     <<"?", "?", "1", "A", "@", "?", "?", "f", "@", "@", "Y", "A", "X", "X", "Z", "@", "Q", "A", "E", "@", "X", "Z">>,
     <<"?", "?", "_", "7", "A", "@", "@", "6", "B", "B", "@", "C">>}

\* the member operators of class A named by the intrinsic codes 2 to 9
OperatorSeeds ==
    {<<"?", "?", "2", "A", "@", "@", "Q", "A", "E", "H", "H", "@", "Z">>,
     <<"?", "?", "3", "A", "@", "@", "Q", "A", "E", "H", "H", "@", "Z">>,
     <<"?", "?", "4", "A", "@", "@", "Q", "A", "E", "H", "H", "@", "Z">>,
     <<"?", "?", "5", "A", "@", "@", "Q", "A", "E", "H", "H", "@", "Z">>,
     <<"?", "?", "6", "A", "@", "@", "Q", "A", "E", "H", "H", "@", "Z">>,
     <<"?", "?", "7", "A", "@", "@", "Q", "A", "E", "H", "H", "@", "Z">>,
     <<"?", "?", "8", "A", "@", "@", "Q", "A", "E", "H", "H", "@", "Z">>,
     <<"?", "?", "9", "A", "@", "@", "Q", "A", "E", "H", "H", "@", "Z">>}

\* names parsed with memorizing cleared: an enum, an enum in a namespace,
\* an enum followed by a reference to its name, a typedef, and a typedef
\* followed by an enum.
QuietSeeds ==
    {<<"?", "x", "@", "@", "3", "W", "4", "E", "@", "N", "@", "@", "A">>,
     <<"?", "f", "@", "@", "Y", "A", "X", "W", "4", "E", "@", "@", "V", "1", "@", "@", "Z">>,
     <<"?", "x", "@", "@", "3", "$", "$", "Y", "T", "@", "A">>,
     <<"?", "f", "@", "@", "Y", "A", "X", "$", "$", "Y", "T", "@", "W", "4", "E", "@", "@", "@", "Z">>}

\* every prefix of every sequence of S
Truncations(S) == UNION {{SubSeq(s, 1, k) : k \in 0..Len(s)} : s \in S}

\* every seed behind one leading dot and behind two
DotInputs ==
    {<<".">> \o s : s \in Seeds \cup TableSeeds}
        \cup {<<".", ".">> \o s : s \in Seeds \cup TableSeeds}

Inputs == Perturbed \cup Md5Inputs \cup Truncations(TableSeeds \cup RenderSeeds \cup QualifierSeeds \cup ScopeSeeds \cup QuietSeeds \cup OperatorSeeds) \cup DotInputs

(***************************************************************************)
(* parse (lines 80-99) as a state machine: the optional leading dot, the   *)
(* symbol parse, the rendering, the returned Option<TokenStream>.          *)
(***************************************************************************)
NoResult == [st |-> "running", stream |-> <<>>, scope |-> <<>>]

Init ==
    /\ input \in Inputs
    /\ pc = "start"
    /\ ctx = Context_new(input)
    /\ backrefs = Backrefs_default
    /\ sym = NoVal
    /\ out = NoResult

\* parse without line 85.
EatDot_skipped ==
    /\ pc = "start"
    /\ pc' = "parse"
    /\ UNCHANGED <<input, ctx, backrefs, sym, out>>

\* line 85: ctx.eat(b'.')
EatDot ==
    /\ pc = "start"
    /\ ctx' = IF eats(ctx, ".") THEN advance(ctx, 1) ELSE ctx
    /\ pc' = "parse"
    /\ UNCHANGED <<input, backrefs, sym, out>>

\* line 87: the ? on the parse result; a failed parse ends the call.
ParseSymbol_result(r) ==
    /\ ctx' = r.ctx
    /\ backrefs' = r.br
    /\ sym' = IF r.st = "some" THEN r.val ELSE NoVal
    /\ pc' = IF r.st = "some" THEN "demangle" ELSE "done"
    /\ out' = IF r.st = "some" THEN out ELSE [out EXCEPT !.st = r.st]

\* line 87: Symbol::parse(&mut ctx, &mut backrefs)?
ParseSymbol ==
    /\ pc = "parse"
    /\ ParseSymbol_result(Parse("Symbol", ctx, backrefs))
    /\ UNCHANGED input

\* line 98: Some(ctx.stream)
Demangle_result(r) ==
    out' = [st |-> IF r.panic THEN "panic" ELSE "some",
            stream |-> r.stream, scope |-> r.scope]

\* lines 88-98: sym.demangle(..); Some(ctx.stream)
Demangle ==
    /\ pc = "demangle"
    /\ Demangle_result(Format("Symbol_demangle", sym, Render_new(input)))
    /\ pc' = "done"
    /\ UNCHANGED <<input, ctx, backrefs, sym>>

Next == EatDot \/ ParseSymbol \/ Demangle

Spec == Init /\ [][Next]_vars

\* the rendered text of a finished run
Result == Text(out.stream)

(***************************************************************************)
(* Properties of parse.                                                    *)
(***************************************************************************)
Done == pc = "done"
Returned(i) == Done /\ input = i

\* C1: parse is total: every finished run returned a token stream or the
\* single no-result value; no input makes the parser or the formatter panic.
C1_ParseIsTotal == Done => out.st \in {"some", "none"}

\* the inputs of the form ?$TSS<decimal digits>@...
RECURSIVE DigitsThenAt(_, _)
DigitsThenAt(s, i) ==
    IF i > Len(s) THEN FALSE
    ELSE IF s[i] = "@" THEN TRUE
    ELSE IF s[i] \in Range(Digits) THEN DigitsThenAt(s, i + 1)
    ELSE FALSE

IsTssForm(s) ==
    /\ Len(s) >= 7
    /\ SubSeq(s, 1, 5) = <<"?", "$", "T", "S", "S">>
    /\ s[6] \in Range(Digits)
    /\ DigitsThenAt(s, 6)

\* C2: every input of the form ?$TSS<decimal digits>@... makes parse return
\* no result: not a token stream and not a crash.
C2_TssReturnsNoResult == (Done /\ IsTssForm(input)) => out.st = "none"

In_x == <<"?", "x", "@", "@", "3", "H", "A">>
In_fn == <<"?", "f", "n", "@", "@", "Y", "A", "H", "H", "@", "Z">>
In_foo == <<"?", "f", "o", "o", "@", "N", "S", "@", "@", "Y", "A", "X", "X", "Z">>
In_f == <<"?", "f", "@", "@", "Y", "A", "P", "A", "H", "X", "Z">>

\* C3: the concatenated output of parse is exactly int x for ?x@@3HA,
\* int __cdecl fn(int) for ?fn@@YAHH@Z, void __cdecl NS::foo(void) for
\* ?foo@NS@@YAXXZ and int * __cdecl f(void) for ?f@@YAPAHXZ.
C3_ExactOutputs ==
    /\ Returned(In_x) => (out.st = "some" /\ Result = "int x")
    /\ Returned(In_fn) => (out.st = "some" /\ Result = "int __cdecl fn(int)")
    /\ Returned(In_foo) => (out.st = "some" /\ Result = "void __cdecl NS::foo(void)")
    /\ Returned(In_f) => (out.st = "some" /\ Result = "int * __cdecl f(void)")

C3_Witness == Returned(In_f) /\ out.st = "some" /\ Len(out.stream) >= 5

In_ctor == <<"?", "?", "0", "A", "@", "@", "Q", "A", "E", "@", "X", "Z">>
In_dtor == <<"?", "?", "1", "A", "@", "@", "U", "A", "E", "@", "X", "Z">>

\* the bytes of the input a literal borrows
LitText(l) == Concat(SubSeq(input, l.start + 1, l.end))
TokenText(i) == IF i >= 1 /\ i <= Len(out.stream) THEN out.stream[i][1] ELSE ""
AllLiteral(scope) == \A i \in 1..Len(scope) : scope[i].tag = "Literal"
IsCtorOrDtor(s) ==
    /\ s.path.name.tag = "Intrinsics"
    /\ s.path.name.op.tag \in {"Ctor", "Dtor"}

In_g == <<"?", "g", "@", "@", "Y", "A", "P", "6", "A", "H", "H", "@", "Z", "X", "Z">>

\* C5: parse of ?g@@YAP6AHH@ZXZ yields exactly
\* int (__cdecl*__cdecl g(void))(int).
C5_FunctionPointerReturn ==
    Returned(In_g) => (out.st = "some" /\ Result = "int (__cdecl*__cdecl g(void))(int)")

HexSet == Range(Digits) \cup Range(HexLower) \cup Range(HexUpper)

\* the length of the run of hex digits of s that starts at position i
RECURSIVE HexLen(_, _)
HexLen(s, i) == IF i <= Len(s) /\ s[i] \in HexSet THEN 1 + HexLen(s, i + 1) ELSE 0

IsMd5Form(s) == Len(s) >= 3 /\ SubSeq(s, 1, 3) = <<"?", "?", "@">>

\* C6: an input ??@<hex run>@ parses successfully exactly when the run has
\* 32 hex digits and an @ follows it at once; then the hash is the whole
\* name, the type is Unit and the rendering is the hash framed as ??@<hash>@;
\* any other run makes parse return no result.
C6_Md5Form ==
    (Done /\ IsMd5Form(input)) =>
        LET n == HexLen(input, 4)
            ok == n = 32 /\ Len(input) >= 36 /\ input[36] = "@"
        IN /\ out.st = "some" <=> ok
           /\ ~ok => out.st = "none"
           /\ ok => /\ sym.path.name.tag = "MD5"
                    /\ sym.path.name.lit = Borrowed(3, 35)
                    /\ sym.path.scope = <<>>
                    /\ sym.tipe = Unit
                    /\ Result = "??@" \o Concat(SubSeq(input, 4, 35)) \o "@"

C6_Witness == Done /\ IsMd5Form(input) /\ out.st = "some" /\ Len(input) > 36

\* C7: parse of the empty input returns no result, and so does parse of the
\* one-byte input ?.
C7_EmptyAndLoneQuestionMark ==
    /\ Returned(<<>>) => out.st = "none"
    /\ Returned(<<"?">>) => out.st = "none"

C7_Witness == Returned(<<"?">>) /\ out.st = "none" /\ ctx.offset = 1

\* the top-level Symbol::parse has returned (a symbol or a failure)
SymbolParseReturned == pc \in {"demangle", "done"} /\ out.st # "panic"

\* C8: the recursion-depth counter is zero when the top-level Symbol parse
\* returns, with a symbol or with a failure.
C8_DepthReturnsToZero == SymbolParseReturned => ctx.depth = 0

\* C9: every recursive parse entry (nested symbol, template, pointee, array
\* element, function return and parameter type) increments the depth counter
\* while it is active: no entry is made with the counter below the number
\* of active entries.
C9_EveryEntryCounted == ctx.g_unguarded = 0

\* C10: the modifier stack is balanced: no pop runs on an empty stack, every
\* push is matched by one pop, and the stack is empty after every successful
\* top-level parse.
C10_ModifierStackBalanced ==
    (pc \in {"demangle", "done"} /\ sym # NoVal) =>
        /\ ctx.modifiers = <<>>
        /\ ctx.g_emptyPops = 0
        /\ ctx.g_pushes = ctx.g_pops


\* the first n entries of s, all of s when it is shorter
Prefix(s, n) == SubSeq(s, 1, IF Len(s) < n THEN Len(s) ELSE n)

\* the tables of the finished or running parse: the top-level pair and the
\* pair of every template parsed so far
AllTables == {backrefs} \cup {ctx.g_temps[i].temp : i \in DOMAIN ctx.g_temps}

\* a table pair holds at most 10 entries each, and holds exactly the first
\* 10 attempts made on it: an attempt on a full table changed nothing
TableWithinCapacity(T) ==
    /\ Len(T.memorized) <= 10
    /\ Len(T.params) <= 10
    /\ T.memorized = Prefix(T.g_identLog, 10)
    /\ T.params = Prefix(T.g_paramLog, 10)

\* C11: each back-reference table holds at most 10 entries, at the end of
\* the parse and at every digit reference during it; a memorisation attempt
\* on a full table leaves the table as it was (the table is the first 10
\* attempts) and does not fail the parse: the inputs with twelve names and
\* with twelve parameter types parse, with 10 entries kept.
C11_TablesWithinCapacity ==
    /\ \A T \in AllTables : TableWithinCapacity(T)
    /\ \A i \in DOMAIN ctx.g_refs :
          /\ Len(ctx.g_refs[i].table) <= 10
          /\ ctx.g_refs[i].table = Prefix(ctx.g_refs[i].log, 10)
    /\ Returned(In_names) =>
          /\ out.st = "some"
          /\ Len(backrefs.g_identLog) = 12
          /\ Len(backrefs.memorized) = 10
    /\ Returned(In_params) =>
          /\ out.st = "some"
          /\ Len(backrefs.g_paramLog) = 12
          /\ Len(backrefs.params) = 10

C11_Witness ==
    /\ Done
    /\ out.st = "some"
    /\ Len(backrefs.g_identLog) > 10
    /\ Len(backrefs.memorized) = 10


\* a digit reference resolved to the entry memorised at that index, or found
\* no entry because fewer attempts had been made on the table
RefResolved(r) ==
    IF r.hit
    THEN /\ r.digit < Len(r.log)
         /\ r.val = r.log[r.digit + 1]
         /\ r.val = r.table[r.digit + 1]
    ELSE r.digit >= Len(r.table)

\* C12: the tables are append-only in parse order: at every digit reference
\* and at the end of the parse each table is the first 10 attempts made on
\* it, in order; a digit reference i resolves to exactly the i-th memorised
\* entry (in ?x@a@...@k@90@3HA the 9 is i and the 0 is x; in the
\* parameter list of twelve pointer types the 9 is the tenth type and the 0
\* the first); a reference to an index that holds no entry fails the parse.
C12_TablesAppendOnly ==
    /\ \A i \in DOMAIN ctx.g_refs :
          /\ ctx.g_refs[i].table = Prefix(ctx.g_refs[i].log, 10)
          /\ RefResolved(ctx.g_refs[i])
    /\ backrefs.memorized = Prefix(backrefs.g_identLog, 10)
    /\ backrefs.params = Prefix(backrefs.g_paramLog, 10)
    /\ (\E i \in DOMAIN ctx.g_refs : ~ctx.g_refs[i].hit) =>
          (sym = NoVal /\ out.st # "some")
    /\ Returned(In_names) =>
          Result = "int x::i::k::j::i::h::g::f::e::d::c::b::a::x"
    /\ Returned(In_params) =>
          Result = "void __cdecl f(int *, char *, short *, long *, double *, float *, int const *, char const *, short const *, long const *, double const *, float const *, long const *, int *)"


Last(s) == s[Len(s)]
Borrowed_at(start, end) == [tag |-> "Borrowed", start |-> start, end |-> end]

\* C13: a Template is parsed with its own, initially empty pair of tables:
\* every digit reference made while a template is being parsed is resolved
\* in the pair of the innermost such template and every other reference in
\* the top-level pair; a template's pair holds only what was memorised in
\* it; after the template the enclosing tables are as before, except that a
\* template that is a scope component has its leaf name memorised.  In
\* ?f@@YAXPAHV?$U@PAD0@@@0@Z the 0 inside U is char * and the 0 after it
\* int *; in ?f@@YAXV?$U@V0@@@@Z the 0 inside U is U, not f, and U is not
\* added to the outer names; in ?x@?$T@H@1@3HA the outer names are x, T.
C13_TemplateTablesFresh ==
    /\ \A i \in DOMAIN ctx.g_refs :
          ctx.g_refs[i].tid =
              (IF ctx.g_refs[i].tpl = <<>> THEN 0 ELSE Last(ctx.g_refs[i].tpl) + 1)
    /\ \A i \in DOMAIN ctx.g_temps :
          /\ ctx.g_temps[i].temp.g_id # ctx.g_temps[i].outer.g_id
          /\ ctx.g_temps[i].temp.memorized = Prefix(ctx.g_temps[i].temp.g_identLog, 10)
          /\ ctx.g_temps[i].temp.params = Prefix(ctx.g_temps[i].temp.g_paramLog, 10)
          /\ \A k \in DOMAIN ctx.g_temps[i].temp.memorized :
                ctx.g_temps[i].temp.memorized[k].start >= ctx.g_temps[i].temp.g_id - 1
    /\ Returned(In_tpl_params) =>
          /\ Result = "void __cdecl f(int *, class U<char *, char *>, int *)"
          /\ backrefs.memorized = <<Borrowed_at(1, 2)>>
          /\ Len(backrefs.params) = 2
          /\ backrefs.params[1].tag = "Ptr" /\ backrefs.params[1].tipe.tag = "Int"
          /\ backrefs.params[2].tag = "Class"
    /\ Returned(In_tpl_names) =>
          /\ Result = "void __cdecl f(class U<class U>)"
          /\ backrefs.memorized = <<Borrowed_at(1, 2)>>
    /\ Returned(In_tpl_scope) =>
          /\ Result = "int T::T::x"
          /\ backrefs.memorized = <<Borrowed_at(1, 2), Borrowed_at(5, 6)>>
          /\ backrefs.params = <<>>

C13_Witness ==
    /\ Returned(In_tpl_params)
    /\ out.st = "some"
    /\ Len(ctx.g_temps) = 1
    /\ Len(ctx.g_refs) = 2
    /\ ctx.g_refs[1].tpl # <<>>
    /\ ctx.g_refs[1].hit
    /\ ctx.g_refs[2].tpl = <<>>


\* the types of the noted parameter steps that took more than one byte
RECURSIVE LongTypes(_)
LongTypes(steps) ==
    IF steps = <<>> THEN <<>>
    ELSE IF Head(steps).consumed > 1
         THEN <<Head(steps).tipe>> \o LongTypes(Tail(steps))
         ELSE LongTypes(Tail(steps))

\* C14 as stated: in a parameter list a freshly parsed type is memorised
\* into the parameter-type table if and only if its encoding took more than
\* one byte.
C14_ParamMemorisedIffLong_AsStated ==
    \A i \in DOMAIN ctx.g_params :
        ctx.g_params[i].after =
            (IF ctx.g_params[i].consumed > 1
             THEN Append(ctx.g_params[i].before, ctx.g_params[i].tipe)
             ELSE ctx.g_params[i].before)

\* C14 amended: in a parameter list a freshly parsed type is memorised into
\* the parameter-type table if and only if its encoding took more than one
\* byte and the table holds fewer than 10 entries; a one-byte type leaves
\* the table as it was, and so does a digit reference: in a run without
\* templates the attempts made on the table are exactly the fresh types of
\* more than one byte, in order.  In ?f@@YAXPAHH0_N@Z the table ends as
\* int *, bool.
C14_ParamMemorisedIffLong ==
    /\ \A i \in DOMAIN ctx.g_params :
          /\ ctx.g_params[i].consumed >= 1
          /\ ctx.g_params[i].after =
                (IF ctx.g_params[i].consumed > 1 /\ Len(ctx.g_params[i].before) < 10
                 THEN Append(ctx.g_params[i].before, ctx.g_params[i].tipe)
                 ELSE ctx.g_params[i].before)
    /\ ctx.g_temps = <<>> => backrefs.g_paramLog = LongTypes(ctx.g_params)
    /\ Returned(In_param_sizes) =>
          /\ Result = "void __cdecl f(int *, int, int *, bool)"
          /\ backrefs.params = <<[tag |-> "Ptr", tipe |-> [tag |-> "Int", modi |-> {}],
                                    modi |-> {}],
                                  [tag |-> "Bool", modi |-> {}]>>

C14_Witness ==
    /\ Returned(In_param_sizes)
    /\ out.st = "some"
    /\ Len(ctx.g_params) = 3
    /\ ctx.g_params[1].consumed = 3
    /\ ctx.g_params[2].consumed = 1
    /\ ctx.g_params[3].consumed = 2


\* C15: for every input on which parse succeeds the returned token stream
\* holds at least one span, and the colour of every span is one of the
\* enumerated colour values.
C15_StreamNonEmptyAndColoured ==
    (Done /\ out.st = "some") =>
        /\ Len(out.stream) >= 1
        /\ \A i \in DOMAIN out.stream : out.stream[i][2] \in Colors


C15_Witness ==
    /\ Done
    /\ out.st = "some"
    /\ Len(out.stream) = 1
    /\ out.stream[1][2] \in Colors


\* what parse returns for s when line 85 finds no dot: the parse and the
\* rendering of s from its first byte
RenderOf(s, r) ==
    IF r.st # "some" THEN [st |-> r.st, stream |-> <<>>]
    ELSE LET d == Format("Symbol_demangle", r.val, Render_new(s))
         IN [st |-> IF d.panic THEN "panic" ELSE "some", stream |-> d.stream]
ParseOf(s) == RenderOf(s, Parse("Symbol", Context_new(s), Backrefs_default))

StartsWithDot(s) == s # <<>> /\ Head(s) = "."

\* C16: parse strips exactly one optional leading dot: for an input that is
\* a dot followed by s, where s does not start with a dot, the result (no
\* result, or the token stream) is the result of parse on s; an input that
\* starts with two dots fails.
C16_OneLeadingDot ==
    /\ (Done /\ StartsWithDot(input) /\ ~StartsWithDot(Tail(input))) =>
          [st |-> out.st, stream |-> out.stream] = ParseOf(Tail(input))
    /\ (Done /\ StartsWithDot(input) /\ StartsWithDot(Tail(input))) =>
          out.st = "none"

C16_Witness ==
    /\ Returned(<<".">> \o In_x)
    /\ out.st = "some"
    /\ Result = "int x"


\* the number of tokens of a stream whose text is one of texts
TokenCount(stream, texts) ==
    Cardinality({i \in 1..Len(stream) : stream[i][1] \in texts})

\* the opening and the closing parenthesis tokens: Type::demangle_pre and
\* FunctionParameters::demangle open, Type::demangle_post and
\* FunctionParameters::demangle close.
OpenParens == {"(", " ("}
CloseParens == {")"}

\* C17: in every successfully parsed and rendered symbol the parentheses of
\* the two-pass type rendering are balanced: each opening parenthesis emitted
\* by a pre pass has exactly one closing parenthesis emitted by the post
\* pass of the same type.
C17_ParenthesesBalanced ==
    (Done /\ out.st = "some")
        => TokenCount(out.stream, OpenParens) = TokenCount(out.stream, CloseParens)


\* the last byte of a non-empty text is a space
EndsWithSpace(text) == Len(text) > 0 /\ SubSeq(text, Len(text), Len(text)) = " "

\* C18: for every input on which parse succeeds, the concatenated output does
\* not end with a whitespace character.
C18_NoTrailingWhitespace == (Done /\ out.st = "some") => ~EndsWithSpace(Result)


\* the outermost Array node of the type of a parsed variable, behind any
\* pointers and references; NoVal when there is none.
RECURSIVE FirstArray(_)
FirstArray(t) ==
    IF t.tag = "Array" THEN t
    ELSE IF t.tag = "Variable" THEN FirstArray(t.var.tipe)
    ELSE IF t.tag \in {"Ptr", "Ref", "RValueRef"} THEN FirstArray(t.tipe)
    ELSE NoVal

\* the lengths held by the chain of Array nodes that starts at t, outermost
\* first
RECURSIVE Extents(_)
Extents(t) ==
    IF t.tag = "Array" THEN <<t.array.len>> \o Extents(t.array.tipe) ELSE <<>>

\* the lengths Array::parse read for the chain that starts at t, in encoding
\* order: those read by the loop, then the one read after it.
RECURSIVE EncodedLengths(_)
EncodedLengths(t) ==
    IF t.tag = "Array"
    THEN t.array.chained \o <<t.array.len>> \o EncodedLengths(t.array.tipe)
    ELSE <<>>

\* the stream holds the bracketed extent n
RendersExtent(stream, n) ==
    \E i \in 1..(Len(stream) - 2) :
        /\ stream[i][1] = "["
        /\ stream[i + 1][1] = to_string(n)
        /\ stream[i + 2][1] = "]"

ParsedArray ==
    IF Done /\ out.st = "some" /\ "tipe" \in DOMAIN sym THEN FirstArray(sym.tipe) ELSE NoVal

\* C19: an array encoded with N dimension lengths parses to a chain of N
\* Array nodes that hold the N lengths in encoding order, and every length
\* that was read is rendered as a bracketed extent; none is lost.
C19_ArrayKeepsEveryDimension ==
    ParsedArray # NoVal
        => /\ Extents(ParsedArray) = EncodedLengths(ParsedArray)
           /\ \A k \in 1..Len(EncodedLengths(ParsedArray)) :
                  RendersExtent(out.stream, EncodedLengths(ParsedArray)[k])


\* the modifier set a parsed type carries; the types without one carry none
ModifiersOf(t) == IF "modi" \in DOMAIN t THEN t.modi ELSE {}

\* C20: in a MemberFunction or MemberFunctionPtr the member return modifier
\* that was pushed on the modifier stack is carried by the parsed return
\* type: with ?B the return type is const-qualified.
C20_MemberReturnModifierCarried ==
    (Done /\ out.st = "some")
        => \A i \in 1..Len(ctx.g_rets) :
               ctx.g_rets[i].modi \subseteq ModifiersOf(ctx.g_rets[i].return_type)


\* the bytes FunctionQualifiers::parse accepted in its loop
AcceptedBytes(q) == {input[j] : j \in (q.start + 1)..q.stop}

\* the loop of q stopped at a byte that conflicts with an accepted one
StoppedAtConflict(q) ==
    /\ q.stop < Len(input)
    /\ \/ input[q.stop + 1] = "H" /\ "G" \in AcceptedBytes(q)
       \/ input[q.stop + 1] = "G" /\ "H" \in AcceptedBytes(q)

\* C21: FunctionQualifiers::parse consumes at most four qualifier-addition
\* bytes (E, I, F, G, H) followed by at most one base modifier byte; the set
\* it returns never holds both lvalue and rvalue, and no G is accepted after
\* an H nor an H after a G: the conflicting byte is left unconsumed.
C21_QualifierRun ==
    \A i \in 1..Len(ctx.g_quals) :
        LET q == ctx.g_quals[i]
        IN /\ q.stop - q.start <= 4
           /\ q.end - q.stop <= 1
           /\ AcceptedBytes(q) \subseteq {"E", "I", "F", "G", "H"}
           /\ ~({"LVALUE", "RVALUE"} \subseteq q.modi)
           /\ ~({"G", "H"} \subseteq AcceptedBytes(q))
           /\ StoppedAtConflict(q) => q.end = q.stop

\* a finished successful run whose loop accepted two bytes and stopped at a
\* conflicting byte, which the calling convention then read
C21_Witness ==
    /\ Done /\ out.st = "some"
    /\ \E i \in 1..Len(ctx.g_quals) :
           /\ StoppedAtConflict(ctx.g_quals[i])
           /\ ctx.g_quals[i].stop = ctx.g_quals[i].start + 2
           /\ "RVALUE" \in ctx.g_quals[i].modi


\* C22: Scope::parse consumes its components and exactly one terminating @:
\* when it returns, the cursor is immediately after the terminator that ended
\* its loop, and a following @ of the enclosing construct is left unconsumed.
C22_ScopeOneTerminator ==
    \A i \in 1..Len(ctx.g_scopes) : ctx.g_scopes[i].end = ctx.g_scopes[i].stop


\* C23: a scope component of the form ?$... parses to a Template node that
\* keeps both the leaf name and the parameter list, and the leaf literal is
\* memorised into the outer identifier table.
C23_TemplateComponentKept ==
    \A i \in 1..Len(ctx.g_comps) :
        /\ ctx.g_comps[i].node.tag = "Template"
        /\ ctx.g_comps[i].node.template = ctx.g_comps[i].template
        /\ ctx.g_comps[i].template.name.lit \in Range(ctx.g_comps[i].log)


\* C24: while the memorizing flag is false (cleared when a W4 enum path or a
\* $$Y typedef literal is parsed), no identifier parsed in that sub-tree is
\* added to the identifier back-reference table.
C24_NothingMemorisedWhileCleared ==
    \A i \in 1..Len(ctx.g_quiet) : ctx.g_quiet[i].after = ctx.g_quiet[i].before


\* a literal is a byte range of the input
WithinInput(lit) == 0 <= lit.start /\ lit.start <= lit.end /\ lit.end <= Len(input)

\* C25: an anonymous-namespace component ?A0x<hex run>@ memorises an
\* identifier whose byte range covers exactly the hex run, and every entry
\* of the identifier table is a byte range with 0 <= start <= end <= input
\* length.
C25_AnonymousRange ==
    /\ \A i \in 1..Len(ctx.g_anon) :
           /\ ctx.g_anon[i].lit.start = ctx.g_anon[i].run_start
           /\ ctx.g_anon[i].lit.end = ctx.g_anon[i].run_end
    /\ \A T \in AllTables : \A i \in 1..Len(T.memorized) : WithinInput(T.memorized[i])


\* C26: a scope component ?Q<ident>@ with one terminating @ parses to an
\* Interface component, consumes exactly through that @ and memorises the
\* identifier.
C26_InterfaceOneTerminator ==
    \A i \in 1..Len(ctx.g_iface) :
        /\ ctx.g_iface[i].st = "some"
        /\ ctx.g_iface[i].end = ctx.g_iface[i].ident_end
        /\ ctx.g_iface[i].lit \in Range(ctx.g_iface[i].log)


\* the operator names of the intrinsic codes 2 to 9
OperatorName ==
    ("2" :> "operator new" @@ "3" :> "operator delete" @@ "4" :> "operator=" @@
     "5" :> "operator>>" @@ "6" :> "operator<<" @@ "7" :> "operator!" @@
     "8" :> "operator==" @@ "9" :> "operator!=")

\* the input names an operator by one of the intrinsic codes 2 to 9
NamesOperator(s) ==
    Len(s) >= 3 /\ s[1] = "?" /\ s[2] = "?" /\ s[3] \in DOMAIN OperatorName

\* C27: the intrinsic codes 2 to 9 parse and render as operator new,
\* operator delete, operator=, operator>>, operator<<, operator!, operator==
\* and operator!= (the codes 0 and 1, constructor and destructor, are C4); in
\* particular assignment and equality render to different text.
C27_OperatorNames ==
    (Done /\ out.st = "some" /\ NamesOperator(input))
        => \E i \in 1..Len(out.stream) : out.stream[i][1] = OperatorName[input[3]]


\* C28: the scope view consulted by a constructor or destructor name is the
\* scope of the symbol being rendered, also after a nested Symbol among the
\* scope components was rendered: when the innermost scope component is a
\* literal, the name is that literal (the last token of the qualified name)
\* and not the unnamed constructor or destructor text.
C28_ScopeViewKept ==
    (/\ Done /\ out.st = "some" /\ IsCtorOrDtor(sym)
     /\ sym.path.scope # <<>>
     /\ sym.path.scope[1].tag = "Literal")
        => \E i \in 1..Len(out.stream) :
               /\ TokenText(i) = LitText(sym.path.scope[1].lit)
               /\ TokenText(i + 1) # "::"


\* C29: where a failed sub-parse is tolerated and parsing continues (the
\* literal after a failed nested Symbol of a dynamic initializer or at-exit
\* destructor, the optional scope of a vftable or vbtable), the failed
\* attempt leaves the cursor offset, the depth counter, the modifier stack
\* and the back-reference tables as they were before it started.
C29_FailedAttemptLeavesState ==
    \A i \in 1..Len(ctx.g_tries) : ctx.g_tries[i].after = ctx.g_tries[i].before


\* The runs in which a step that can be taken is eventually taken: parse is
\* one synchronous function call, nothing suspends it between its steps.
\* Every action of Next is guarded by the position alone and assigns every
\* variable, so a step of Next can be taken exactly when the position is
\* not yet done, and it is a step that changes the position: under Spec
\* the condition below is weak fairness of Next.
FairSpec == Spec /\ WF_pc(pc # "done" /\ pc' \in {"parse", "demangle", "done"})

\* the cursor offset stays between 0 and the length of the input, no parse
\* call is entered
\* while a call of the same node type at the same offset is in progress, no
\* iteration of the scope loop consumes nothing, every parameter parsed in
\* a parameter list consumed at least one byte, and no call is left open
\* once the parse has returned.
ParseMovesForward ==
    /\ 0 <= ctx.offset
    /\ ctx.offset <= Len(input)
    /\ ctx.g_stalls = 0
    /\ \A i \in DOMAIN ctx.g_params : ctx.g_params[i].consumed >= 1
    /\ ctx.g_calls = <<>>

\* C30: for every finite input parse terminates: every run reaches the state
\* where parse has returned, and on the way the cursor offset stays between
\* 0 and the length of the input while every loop iteration and every
\* recursive parse call consumes at least one byte before it repeats.
C30_ParseTerminates == []ParseMovesForward /\ <>Done

\* a finished parse that consumed its whole input through nested type
\* parses, a parameter list of two entries and a scope of one component.
C30_Witness ==
    /\ Done
    /\ out.st = "some"
    /\ ctx.offset = Len(input)
    /\ Len(input) > 0
    /\ ctx.g_maxNest >= 2
    /\ Len(ctx.g_params) >= 2
    /\ \E i \in DOMAIN ctx.g_scopes : ctx.g_scopes[i].end > ctx.g_scopes[i].start + 1

====
